---- MODULE Spec2Model ----
(***************************************************************************)
(* A model of the focus-patterns Tabs controller                           *)
(* (src/src/patterns/tabs/tabs.ts) and of the navigation helper it uses    *)
(* (src/src/core/utils.ts).                                                *)
(*                                                                         *)
(* The document is modelled by the state of the elements the controller    *)
(* works on: the tablist, the tab elements and the panel elements of one   *)
(* container.  Source indices are 0-based and are kept 0-based here; the   *)
(* element at source index i is tabs[i + 1].                               *)
(***************************************************************************)
EXTENDS Integers, Sequences, FiniteSets, TLC

\* Bounds of the model: the largest number of tab and of panel elements in
\* the container handed to the constructor.
MaxTabs == 2
MaxPanels == 2

\* The largest array length getNextElement is called with on its own.
MaxLen == 5

\* The largest number of [data-focus] containers on the page.
MaxContainers == 2

\* The largest number of constructions over one container.
MaxBuilt == 2

\* An absent attribute (getAttribute returns null).
NULL == "null"

VARIABLES
    userConfig,    \* the TabsConfig handed to the constructor (an input)
    markup,        \* the container's elements as handed to the constructor
    config,        \* Tabs.config, the resolved configuration
    phase,         \* "new": not constructed; "ready": constructor returned;
                   \* "thrown": the constructor threw
    tablist,       \* the element this.tablist refers to
    tabs,          \* the elements this.tabs refers to, in order
    panels,        \* the elements this.panels refers to, in order
    docTabs,       \* the elements at the tab positions of the document
    listeners,     \* nodes of tab elements carrying the instance's listeners
    currentIndex,  \* Tabs.currentIndex
    focus,         \* index of the document tab holding input focus, -1: none
    last,          \* the last operation: its arguments and what it emitted
    nav,           \* the last call of getNextElement: arguments and result
    page           \* the containers of the document and the bootstrap's
                   \* registry of instances (index.ts)

vars == <<userConfig, markup, config, phase, tablist, tabs, panels, docTabs,
          listeners, currentIndex, focus, last, nav, page>>

----------------------------------------------------------------------------
(* Element values *)

\* Identifiers.  A generated identifier is prefix-index-random suffix; the
\* parts are kept apart since strings cannot be concatenated.
NoId == [kind |-> "none", prefix |-> "", marker |-> "", index |-> 0, rnd |-> ""]
AuthorId(name, i) == [kind |-> "author", prefix |-> name, marker |-> "", index |-> i, rnd |-> ""]

\* The suffixes Math.random().toString(36).substr(2, 9) is drawn from.
RandomSuffixes == {"k3j9x2m1q"}

\* generateId(`${prefix}-${index}`) and generateId(`${prefix}-panel-${index}`)
generateId(prefix, marker, i, rnd) ==
    [kind |-> "gen", prefix |-> prefix, marker |-> marker, index |-> i, rnd |-> rnd]

\* String(isSelected)
BoolStr(b) == IF b THEN "true" ELSE "false"

TABINDEX_FOCUSABLE == "0"
TABINDEX_NOT_FOCUSABLE == "-1"

ERR_NO_TABLIST == "No tablist found in container"
ERR_NO_TABS_OR_PANELS == "No tabs or panels found"
ERR_MISMATCH_COUNT == "Number of tabs and panels do not match"
ERR_INVALID_TAB_INDEX == "Invalid tab index"
ERR_MISSING_TAB_ROLE == "Missing role=tab on tab element"
ERR_MISSING_PANEL_ROLE == "Missing role=tabpanel on panel element"
ERR_MISSING_TAB_ID == "Missing ID on tab element"
ERR_MISSING_PANEL_ID == "Missing ID on panel element"

\* The tabs marked selected and the panels shown, as 0-based index sets.
SelectedTabs(tbs) == {i \in 0..(Len(tbs) - 1) : tbs[i + 1].selected = "true"}
FocusableTabs(tbs) == {i \in 0..(Len(tbs) - 1) : tbs[i + 1].tabindex = TABINDEX_FOCUSABLE}
VisiblePanels(pnls) == {i \in 0..(Len(pnls) - 1) : ~pnls[i + 1].hidden}

\* Something the controller emits: a console message, an announce request
\* or an onChange call.  index and node are the arguments of onChange (the
\* index and the element handed over); selectedNow and visibleNow record
\* what the elements showed at the moment of the call.
Effect(type, msg, index, node, tbs, pnls) ==
    [type |-> type, msg |-> msg, index |-> index, node |-> node,
     selectedNow |-> SelectedTabs(tbs), visibleNow |-> VisiblePanels(pnls)]

----------------------------------------------------------------------------
(* core/utils.ts *)

\* A variant of getNextElement that wraps a step below 0 to index 0.
getNextElement_WrapsLowToZero(length, current, direction, loop) ==
    LET nextIndex == current + direction
    IN IF loop
       THEN LET wrappedLow == IF nextIndex < 0 THEN 0 ELSE nextIndex
            IN IF wrappedLow >= length THEN 0 ELSE wrappedLow
       ELSE LET clampedLow == IF nextIndex < 0 THEN 0 ELSE nextIndex
            IN IF clampedLow >= length THEN length - 1 ELSE clampedLow

\* A variant of getNextElement that clamps a step past the end to length.
getNextElement_ClampsToLength(length, current, direction, loop) ==
    LET nextIndex == current + direction
    IN IF loop
       THEN LET wrappedLow == IF nextIndex < 0 THEN length - 1 ELSE nextIndex
            IN IF wrappedLow >= length THEN 0 ELSE wrappedLow
       ELSE LET clampedLow == IF nextIndex < 0 THEN 0 ELSE nextIndex
            IN IF clampedLow >= length THEN length ELSE clampedLow

\* A variant of getNextElement that wraps by adding or subtracting the
\* length: the same for a current index inside the array.
getNextElement_WrapsByLength(length, current, direction, loop) ==
    LET nextIndex == current + direction
    IN IF loop
       THEN LET wrappedLow == IF nextIndex < 0 THEN nextIndex + length ELSE nextIndex
            IN IF wrappedLow >= length THEN wrappedLow - length ELSE wrappedLow
       ELSE LET clampedLow == IF nextIndex < 0 THEN 0 ELSE nextIndex
            IN IF clampedLow >= length THEN length - 1 ELSE clampedLow

\* getNextElement(array, currentIndex, direction, loop), on array.length
getNextElement(length, current, direction, loop) ==
    LET nextIndex == current + direction
    IN IF loop
       THEN LET wrappedLow == IF nextIndex < 0 THEN length - 1 ELSE nextIndex
            IN IF wrappedLow >= length THEN 0 ELSE wrappedLow
       ELSE LET clampedLow == IF nextIndex < 0 THEN 0 ELSE nextIndex
            IN IF clampedLow >= length THEN length - 1 ELSE clampedLow

----------------------------------------------------------------------------
(* Tabs: configuration *)

\* A field the caller did not pass.
UNSET == "unset"

\* A variant of ResolveConfig in which loop is off unless asked for.
ResolveConfig_LoopOffByDefault(uc) ==
    [strict          |-> uc.strict = "true",
     activation      |-> IF uc.activation = UNSET THEN "manual" ELSE uc.activation,
     orientation     |-> IF uc.orientation = UNSET THEN "horizontal" ELSE uc.orientation,
     loop            |-> IF uc.loop = UNSET THEN "false" ELSE uc.loop,
     idPrefix        |-> IF uc.idPrefix = UNSET THEN "tab" ELSE uc.idPrefix,
     announceChanges |-> uc.announceChanges # "false"]

\* constructor, lines 72-80
ResolveConfig(uc) ==
    [strict          |-> uc.strict = "true",
     activation      |-> IF uc.activation = UNSET THEN "manual" ELSE uc.activation,
     orientation     |-> IF uc.orientation = UNSET THEN "horizontal" ELSE uc.orientation,
     loop            |-> IF uc.loop = UNSET THEN "true" ELSE uc.loop,
     idPrefix        |-> IF uc.idPrefix = UNSET THEN "tab" ELSE uc.idPrefix,
     announceChanges |-> uc.announceChanges # "false"]

----------------------------------------------------------------------------
(* Tabs: selection *)

\* A variant of isValidTabIndex that accepts the index one past the last tab.
isValidTabIndex_UpToLength(tbs, index) == index >= 0 /\ index <= Len(tbs)

\* A variant of isValidTabIndex without the lower bound.
isValidTabIndex_NoLowerBound(tbs, index) == index < Len(tbs)

\* Tabs.isValidTabIndex
isValidTabIndex(tbs, index) == index >= 0 /\ index < Len(tbs)

\* const isSelected = i === selectedIndex
isSelectedAt(i, selectedIndex) == i = selectedIndex

\* A variant of updateTab that takes no tab out of the tab order: tabindex
\* is written on the selected tab only.
updateTab_KeepsTabStop(tab, i, selectedIndex) ==
    [tab EXCEPT !.selected = BoolStr(isSelectedAt(i, selectedIndex)),
                !.tabindex = IF isSelectedAt(i, selectedIndex)
                             THEN TABINDEX_FOCUSABLE ELSE tab.tabindex]

\* The attributes updateTabStates writes on the tab at index i.
updateTab(tab, i, selectedIndex) ==
    [tab EXCEPT !.selected = BoolStr(isSelectedAt(i, selectedIndex)),
                !.tabindex = IF isSelectedAt(i, selectedIndex)
                             THEN TABINDEX_FOCUSABLE ELSE TABINDEX_NOT_FOCUSABLE]

\* panel.hidden = !isSelected
updatePanel(panel, i, selectedIndex) ==
    [panel EXCEPT !.hidden = ~isSelectedAt(i, selectedIndex)]

\* A variant of updateTabStates that writes the selected pair only.
updateTabStates_SelectedPairOnly(tbs, pnls, selectedIndex) ==
    [tabs   |-> [i \in DOMAIN tbs |->
                    IF i - 1 = selectedIndex
                    THEN [tbs[i] EXCEPT !.selected = "true",
                                        !.tabindex = TABINDEX_FOCUSABLE]
                    ELSE tbs[i]],
     panels |-> [i \in DOMAIN pnls |->
                    IF i - 1 = selectedIndex /\ i <= Len(tbs)
                    THEN [pnls[i] EXCEPT !.hidden = FALSE]
                    ELSE pnls[i]]]

\* A variant of updateTabStates that leaves the panels alone when the
\* selected tab has no panel at its index.
updateTabStates_KeepsPanelsWithoutPair(tbs, pnls, selectedIndex) ==
    [tabs   |-> [i \in DOMAIN tbs |-> updateTab(tbs[i], i - 1, selectedIndex)],
     panels |-> [i \in DOMAIN pnls |->
                    IF i <= Len(tbs) /\ selectedIndex < Len(pnls)
                    THEN updatePanel(pnls[i], i - 1, selectedIndex)
                    ELSE pnls[i]]]

\* A variant of updateTabStates that goes over the panels as well: a panel
\* beyond the last tab is hidden.
updateTabStates_EveryPanel(tbs, pnls, selectedIndex) ==
    [tabs   |-> [i \in DOMAIN tbs |-> updateTab(tbs[i], i - 1, selectedIndex)],
     panels |-> [i \in DOMAIN pnls |-> updatePanel(pnls[i], i - 1, selectedIndex)]]

\* updateTabStates: every tab is written; the panel at a tab's index is
\* written if there is one; a panel beyond the last tab is never visited.
updateTabStates(tbs, pnls, selectedIndex) ==
    [tabs   |-> [i \in DOMAIN tbs |-> updateTab(tbs[i], i - 1, selectedIndex)],
     panels |-> [i \in DOMAIN pnls |->
                    IF i <= Len(tbs) THEN updatePanel(pnls[i], i - 1, selectedIndex)
                    ELSE pnls[i]]]

\* this.tabs[index]: the node of the element, -1 for undefined.
NodeAt(tbs, index) == IF (index + 1) \in DOMAIN tbs THEN tbs[index + 1].node ELSE -1

\* A variant of announceTabChange that does not look at shouldAnnounce.
announceTabChange_IgnoresArgument(cfg, tbs, pnls, index, previousIndex, shouldAnnounce) ==
    IF cfg.announceChanges /\ previousIndex # index
    THEN <<Effect("announce", "selected", index, NodeAt(tbs, index), tbs, pnls)>>
    ELSE <<>>

announceTabChange(cfg, tbs, pnls, index, previousIndex, shouldAnnounce) ==
    IF shouldAnnounce /\ cfg.announceChanges /\ previousIndex # index
    THEN <<Effect("announce", "selected", index, NodeAt(tbs, index), tbs, pnls)>>
    ELSE <<>>

\* A variant of notifyTabChange that calls onChange on every selection.
notifyTabChange_Always(tbs, pnls, index, previousIndex) ==
    <<Effect("onChange", "", index, NodeAt(tbs, index), tbs, pnls)>>

notifyTabChange(tbs, pnls, index, previousIndex) ==
    IF previousIndex # index
    THEN <<Effect("onChange", "", index, NodeAt(tbs, index), tbs, pnls)>>
    ELSE <<>>

\* A variant of selectTab that calls onChange before it asks for the
\* announcement.
selectTab_NotifyFirst(cfg, ci, tbs, pnls, index, shouldAnnounce) ==
    IF ~isValidTabIndex(tbs, index)
    THEN [currentIndex |-> ci, tabs |-> tbs, panels |-> pnls,
          effects |-> <<Effect("warn", ERR_INVALID_TAB_INDEX, index, -1, tbs, pnls)>>]
    ELSE LET previousIndex == ci
             upd == updateTabStates(tbs, pnls, index)
         IN [currentIndex |-> index, tabs |-> upd.tabs, panels |-> upd.panels,
             effects |-> notifyTabChange(upd.tabs, upd.panels, index, previousIndex)
                         \o announceTabChange(cfg, upd.tabs, upd.panels, index,
                                              previousIndex, shouldAnnounce)]

\* selectTab(index, shouldAnnounce) on an instance whose fields are ci, tbs
\* and pnls: the fields after the call and what the call emitted, in order.
selectTab(cfg, ci, tbs, pnls, index, shouldAnnounce) ==
    IF ~isValidTabIndex(tbs, index)
    THEN [currentIndex |-> ci, tabs |-> tbs, panels |-> pnls,
          effects |-> <<Effect("warn", ERR_INVALID_TAB_INDEX, index, -1, tbs, pnls)>>]
    ELSE LET previousIndex == ci
             upd == updateTabStates(tbs, pnls, index)
         IN [currentIndex |-> index, tabs |-> upd.tabs, panels |-> upd.panels,
             effects |-> announceTabChange(cfg, upd.tabs, upd.panels, index,
                                           previousIndex, shouldAnnounce)
                         \o notifyTabChange(upd.tabs, upd.panels, index, previousIndex)]

\* What an onChange callback of the page's code gets to see when it is
\* called with index, and the call of selectTab(index) it makes: the
\* elements and getSelectedIndex() at that moment.
Observed(type, index, ci, tbs, pnls) ==
    [type |-> type, msg |-> "", index |-> index, node |-> NodeAt(tbs, index),
     selectedNow |-> SelectedTabs(tbs), visibleNow |-> VisiblePanels(pnls),
     currentIndexNow |-> ci]

RECURSIVE selectTabCalling(_, _, _, _, _, _, _)

\* A variant of selectTabCalling that assigns currentIndex once more when
\* the callback has returned.
selectTabCalling_AssignsAfterCallback(cfg, ci, tbs, pnls, index, shouldAnnounce, j) ==
    IF ~isValidTabIndex(tbs, index)
    THEN [currentIndex |-> ci, tabs |-> tbs, panels |-> pnls,
          effects |-> <<Effect("warn", ERR_INVALID_TAB_INDEX, index, -1, tbs, pnls)>>]
    ELSE LET previousIndex == ci
             upd == updateTabStates(tbs, pnls, index)
             ann == announceTabChange(cfg, upd.tabs, upd.panels, index,
                                      previousIndex, shouldAnnounce)
             cb  == selectTabCalling(cfg, index, upd.tabs, upd.panels, j, TRUE, j)
         IN IF previousIndex # index
            THEN [currentIndex |-> index, tabs |-> cb.tabs, panels |-> cb.panels,
                  effects |-> ann
                              \o <<Observed("onChange", index, index, upd.tabs, upd.panels),
                                   Observed("callback", j, index, upd.tabs, upd.panels)>>
                              \o cb.effects]
            ELSE [currentIndex |-> index, tabs |-> upd.tabs, panels |-> upd.panels,
                  effects |-> ann]

\* selectTab(index, shouldAnnounce) on an instance whose onChange is a
\* callback of the page's code that calls selectTab(j) on the instance:
\* currentIndex and the elements are written before notifyTabChange calls
\* onChange, the callback's selectTab(j) runs to its end inside that call
\* (calling onChange again if j is another index), and nothing follows
\* notifyTabChange in the outer call.
selectTabCalling(cfg, ci, tbs, pnls, index, shouldAnnounce, j) ==
    IF ~isValidTabIndex(tbs, index)
    THEN [currentIndex |-> ci, tabs |-> tbs, panels |-> pnls,
          effects |-> <<Effect("warn", ERR_INVALID_TAB_INDEX, index, -1, tbs, pnls)>>]
    ELSE LET previousIndex == ci
             upd == updateTabStates(tbs, pnls, index)
             ann == announceTabChange(cfg, upd.tabs, upd.panels, index,
                                      previousIndex, shouldAnnounce)
             cb  == selectTabCalling(cfg, index, upd.tabs, upd.panels, j, TRUE, j)
         IN IF previousIndex # index
            THEN [currentIndex |-> cb.currentIndex, tabs |-> cb.tabs,
                  panels |-> cb.panels,
                  effects |-> ann
                              \o <<Observed("onChange", index, index, upd.tabs, upd.panels),
                                   Observed("callback", j, index, upd.tabs, upd.panels)>>
                              \o cb.effects]
            ELSE [currentIndex |-> index, tabs |-> upd.tabs, panels |-> upd.panels,
                  effects |-> ann]

----------------------------------------------------------------------------
(* Tabs: construction *)

\* validateElements: what it reports.  It returns early but init goes on.
validateElements(tl, tbs, pnls) ==
    IF ~tl.present
    THEN <<Effect("error", ERR_NO_TABLIST, -1, -1, tbs, pnls)>>
    ELSE IF Len(tbs) = 0 \/ Len(pnls) = 0
    THEN <<Effect("error", ERR_NO_TABS_OR_PANELS, -1, -1, tbs, pnls)>>
    ELSE IF Len(tbs) # Len(pnls)
    THEN <<Effect("warn", ERR_MISMATCH_COUNT, -1, -1, tbs, pnls)>>
    ELSE <<>>

\* setTablistAttributes and applyOrientationStyling
setTablistAttributes(tl, cfg) ==
    [tl EXCEPT !.role = IF tl.role = NULL THEN "tablist" ELSE tl.role,
               !.orientation = cfg.orientation,
               !.vertical = tl.vertical \/ cfg.orientation = "vertical"]

\* A variant of ensureElementIds that generates an id for every element,
\* whether it has one or not.
ensureElementIds_AlwaysGenerates(tab, panel, index, cfg, rnd) ==
    [tab   |-> [tab EXCEPT !.id = generateId(cfg.idPrefix, "", index, rnd)],
     panel |-> [panel EXCEPT !.id = generateId(cfg.idPrefix, "panel", index, rnd)]]

\* ensureElementIds: the two elements with their ids assigned.
ensureElementIds(tab, panel, index, cfg, rnd) ==
    LET tabId   == IF tab.id # NoId THEN tab.id
                   ELSE generateId(cfg.idPrefix, "", index, rnd)
        panelId == IF panel.id # NoId THEN panel.id
                   ELSE generateId(cfg.idPrefix, "panel", index, rnd)
    IN [tab |-> [tab EXCEPT !.id = tabId], panel |-> [panel EXCEPT !.id = panelId]]

\* A variant of setStaticAriaAttributes that writes a role only where the
\* element has none.
setStaticAriaAttributes_RoleIfAbsent(tab, panel, tabId, panelId) ==
    [tab   |-> [tab EXCEPT !.role = IF tab.role = NULL THEN "tab" ELSE tab.role,
                           !.controls = panelId],
     panel |-> [panel EXCEPT !.role = IF panel.role = NULL THEN "tabpanel"
                                      ELSE panel.role,
                             !.labelledby = tabId]]

setStaticAriaAttributes(tab, panel, tabId, panelId) ==
    [tab   |-> [tab EXCEPT !.role = "tab", !.controls = panelId],
     panel |-> [panel EXCEPT !.role = "tabpanel", !.labelledby = tabId]]

\* SELECTORS.FOCUSABLE_ELEMENTS, on the kind of descendant a panel holds:
\* 'a, button, input, select, textarea, [tabindex]:not([tabindex="-1"])'
MatchesFocusableSelector(content) ==
    content \in {"a-href", "a-nohref", "button", "button-disabled", "input",
                 "input-disabled", "tabindex-0"}

setIntelligentTabindex(panel) ==
    IF ~MatchesFocusableSelector(panel.content)
    THEN [panel EXCEPT !.tabindex = TABINDEX_FOCUSABLE]
    ELSE panel

setInitialDynamicAttributes(tab, panel) ==
    [tab   |-> [tab EXCEPT !.selected = "false", !.tabindex = TABINDEX_NOT_FOCUSABLE],
     panel |-> [panel EXCEPT !.hidden = TRUE]]

\* One pass of the forEach of setupForgivingMode, on the pair at index.
forgivingPair(tab, panel, index, cfg, rnd) ==
    LET ids == ensureElementIds(tab, panel, index, cfg, rnd)
        st  == setStaticAriaAttributes(ids.tab, ids.panel, ids.tab.id, ids.panel.id)
    IN setInitialDynamicAttributes(st.tab, setIntelligentTabindex(st.panel))

setupForgivingMode(tbs, pnls, cfg, rnd) ==
    [tabs   |-> [i \in DOMAIN tbs |->
                    IF i <= Len(pnls)
                    THEN forgivingPair(tbs[i], pnls[i], i - 1, cfg, rnd).tab
                    ELSE tbs[i]],
     panels |-> [i \in DOMAIN pnls |->
                    IF i <= Len(tbs)
                    THEN forgivingPair(tbs[i], pnls[i], i - 1, cfg, rnd).panel
                    ELSE pnls[i]],
     thrown |-> NULL]

\* A variant of validateRequiredAttributes that checks the ids before the
\* roles.
validateRequiredAttributes_IdsFirst(tab, panel) ==
    IF tab.id = NoId THEN ERR_MISSING_TAB_ID
    ELSE IF panel.id = NoId THEN ERR_MISSING_PANEL_ID
    ELSE IF tab.role = NULL THEN ERR_MISSING_TAB_ROLE
    ELSE IF panel.role = NULL THEN ERR_MISSING_PANEL_ROLE
    ELSE NULL

\* validateRequiredAttributes: the message it throws, NULL if it returns.
validateRequiredAttributes(tab, panel) ==
    IF tab.role = NULL THEN ERR_MISSING_TAB_ROLE
    ELSE IF panel.role = NULL THEN ERR_MISSING_PANEL_ROLE
    ELSE IF tab.id = NoId THEN ERR_MISSING_TAB_ID
    ELSE IF panel.id = NoId THEN ERR_MISSING_PANEL_ID
    ELSE NULL

\* A variant of setupStrictMode that validates every pair before it writes
\* the dynamic attributes of any.
setupStrictMode_ValidateFirst(tbs, pnls) ==
    LET pairs   == {i \in DOMAIN tbs : i <= Len(pnls)}
        failing == {i \in pairs : validateRequiredAttributes(tbs[i], pnls[i]) # NULL}
        stop    == IF failing = {} THEN Len(tbs) + 1
                   ELSE CHOOSE i \in failing : \A j \in failing : i <= j
    IN [tabs   |-> [i \in DOMAIN tbs |->
                       IF i \in pairs /\ failing = {}
                       THEN setInitialDynamicAttributes(tbs[i], pnls[i]).tab
                       ELSE tbs[i]],
        panels |-> [i \in DOMAIN pnls |->
                       IF i \in pairs /\ failing = {}
                       THEN setInitialDynamicAttributes(tbs[i], pnls[i]).panel
                       ELSE pnls[i]],
        thrown |-> IF failing = {} THEN NULL
                   ELSE validateRequiredAttributes(tbs[stop], pnls[stop])]

\* setupStrictMode: the forEach stops at the first pair that fails the
\* validation; the pairs before it have had their dynamic attributes set.
setupStrictMode(tbs, pnls) ==
    LET pairs   == {i \in DOMAIN tbs : i <= Len(pnls)}
        failing == {i \in pairs : validateRequiredAttributes(tbs[i], pnls[i]) # NULL}
        stop    == IF failing = {} THEN Len(tbs) + 1
                   ELSE CHOOSE i \in failing : \A j \in failing : i <= j
    IN [tabs   |-> [i \in DOMAIN tbs |->
                       IF i \in pairs /\ i < stop
                       THEN setInitialDynamicAttributes(tbs[i], pnls[i]).tab
                       ELSE tbs[i]],
        panels |-> [i \in DOMAIN pnls |->
                       IF i \in pairs /\ i < stop
                       THEN setInitialDynamicAttributes(tbs[i], pnls[i]).panel
                       ELSE pnls[i]],
        thrown |-> IF failing = {} THEN NULL
                   ELSE validateRequiredAttributes(tbs[stop], pnls[stop])]

\* A variant of setupARIA that throws when there is no tablist.
setupARIA_ThrowsWithoutTablist(tl, tbs, pnls, cfg, rnd) ==
    IF ~tl.present
    THEN [tablist |-> tl, tabs |-> tbs, panels |-> pnls, thrown |-> ERR_NO_TABLIST]
    ELSE LET m == IF cfg.strict THEN setupStrictMode(tbs, pnls)
                  ELSE setupForgivingMode(tbs, pnls, cfg, rnd)
         IN [tablist |-> setTablistAttributes(tl, cfg),
             tabs |-> m.tabs, panels |-> m.panels, thrown |-> m.thrown]

\* setupARIA: nothing without a tablist; else the tablist attributes and
\* then the mode's pass over the pairs.
setupARIA(tl, tbs, pnls, cfg, rnd) ==
    IF ~tl.present
    THEN [tablist |-> tl, tabs |-> tbs, panels |-> pnls, thrown |-> NULL]
    ELSE LET m == IF cfg.strict THEN setupStrictMode(tbs, pnls)
                  ELSE setupForgivingMode(tbs, pnls, cfg, rnd)
         IN [tablist |-> setTablistAttributes(tl, cfg),
             tabs |-> m.tabs, panels |-> m.panels, thrown |-> m.thrown]

\* tabs.findIndex(tab => tab.getAttribute('aria-selected') === 'true')
findPreselected(tbs) ==
    IF SelectedTabs(tbs) = {} THEN -1
    ELSE CHOOSE i \in SelectedTabs(tbs) : \A j \in SelectedTabs(tbs) : i <= j

\* A variant of initialIndex that falls back to the last tab.
initialIndex_LastTab(tbs) ==
    IF findPreselected(tbs) >= 0 THEN findPreselected(tbs) ELSE Len(tbs) - 1

\* selectInitialTab: the index it selects.
initialIndex(tbs) ==
    IF findPreselected(tbs) >= 0 THEN findPreselected(tbs) ELSE 0

\* A variant of selectInitialTab that leaves shouldAnnounce at its default.
selectInitialTab_Announcing(cfg, ci, tbs, pnls) ==
    selectTab(cfg, ci, tbs, pnls, initialIndex(tbs), TRUE)

\* selectInitialTab
selectInitialTab(cfg, ci, tbs, pnls) ==
    selectTab(cfg, ci, tbs, pnls, initialIndex(tbs), FALSE)

\* setupEvents: the nodes that get a click and a keydown listener.
setupEvents(tbs) == {tbs[i].node : i \in DOMAIN tbs}

----------------------------------------------------------------------------
(* Tabs: keyboard *)

Keys == {"ArrowLeft", "ArrowRight", "ArrowUp", "ArrowDown", "Home", "End", "Enter"}

\* A variant of isOrientationMatch that takes every arrow key in either
\* orientation.
isOrientationMatch_AnyArrow(key, orientation) ==
    key \in {"ArrowLeft", "ArrowUp", "ArrowRight", "ArrowDown"}

isOrientationMatch(key, orientation) ==
    \/ key = "ArrowLeft" /\ orientation = "horizontal"
    \/ key = "ArrowUp" /\ orientation = "vertical"
    \/ key = "ArrowRight" /\ orientation = "horizontal"
    \/ key = "ArrowDown" /\ orientation = "vertical"

\* A variant of keyTarget in which End goes one tab forward, as ArrowRight
\* does, instead of to the last tab.
keyTarget_EndStepsForward(cfg, tbs, k, key) ==
    IF key \in {"ArrowLeft", "ArrowUp"}
    THEN IF isOrientationMatch(key, cfg.orientation)
         THEN [newIndex |-> getNextElement(Len(tbs), k, -1, cfg.loop = "true"),
               handled |-> TRUE]
         ELSE [newIndex |-> k, handled |-> FALSE]
    ELSE IF key \in {"ArrowRight", "ArrowDown"}
    THEN IF isOrientationMatch(key, cfg.orientation)
         THEN [newIndex |-> getNextElement(Len(tbs), k, 1, cfg.loop = "true"),
               handled |-> TRUE]
         ELSE [newIndex |-> k, handled |-> FALSE]
    ELSE IF key = "Home" THEN [newIndex |-> 0, handled |-> TRUE]
    ELSE IF key = "End"
    THEN [newIndex |-> getNextElement(Len(tbs), k, 1, cfg.loop = "true"),
          handled |-> TRUE]
    ELSE [newIndex |-> k, handled |-> FALSE]

\* The switch of handleKeydown: the target index and whether the key is
\* handled, for a keydown on the tab at index k.
keyTarget(cfg, tbs, k, key) ==
    IF key \in {"ArrowLeft", "ArrowUp"}
    THEN IF isOrientationMatch(key, cfg.orientation)
         THEN [newIndex |-> getNextElement(Len(tbs), k, -1, cfg.loop = "true"),
               handled |-> TRUE]
         ELSE [newIndex |-> k, handled |-> FALSE]
    ELSE IF key \in {"ArrowRight", "ArrowDown"}
    THEN IF isOrientationMatch(key, cfg.orientation)
         THEN [newIndex |-> getNextElement(Len(tbs), k, 1, cfg.loop = "true"),
               handled |-> TRUE]
         ELSE [newIndex |-> k, handled |-> FALSE]
    ELSE IF key = "Home" THEN [newIndex |-> 0, handled |-> TRUE]
    ELSE IF key = "End" THEN [newIndex |-> Len(tbs) - 1, handled |-> TRUE]
    ELSE [newIndex |-> k, handled |-> FALSE]

\* A variant of handleTabClick that selects only with automatic activation.
handleTabClick_AutoOnly(cfg, ci, tbs, pnls, index) ==
    IF cfg.activation = "auto"
    THEN selectTab(cfg, ci, tbs, pnls, index, TRUE)
    ELSE [currentIndex |-> ci, tabs |-> tbs, panels |-> pnls, effects |-> <<>>]

\* handleTabClick(event, index), after event.preventDefault()
handleTabClick(cfg, ci, tbs, pnls, index) ==
    selectTab(cfg, ci, tbs, pnls, index, TRUE)

\* A variant of selectsOnKey with the two activation modes exchanged.
selectsOnKey_ManualOnly(cfg) == cfg.activation = "manual"

\* A variant of selectsOnKey that never selects on a key.
selectsOnKey_Never(cfg) == FALSE

\* A variant of selectsOnKey that selects in either activation mode.
selectsOnKey_Always(cfg) == TRUE

\* if (this.config.activation === 'auto') this.selectTab(newIndex)
selectsOnKey(cfg) == cfg.activation = "auto"

----------------------------------------------------------------------------
(* The inputs: configurations and markup *)

DefaultUserConfig ==
    [strict |-> UNSET, activation |-> UNSET, orientation |-> UNSET,
     loop |-> UNSET, idPrefix |-> UNSET, announceChanges |-> UNSET]

\* A tab element of the markup at index i.  authored: the author wrote the
\* role, the id and the aria-controls relation; sel: its aria-selected.
TabMarkup(i, authored, sel) ==
    [node     |-> i,
     id       |-> IF authored THEN AuthorId("my-tab", i) ELSE NoId,
     role     |-> IF authored THEN "tab" ELSE NULL,
     controls |-> IF authored THEN AuthorId("my-panel", i) ELSE NoId,
     selected |-> sel,
     tabindex |-> NULL]

\* A panel element of the markup at index i.  content: the kind of
\* descendant it holds ("text": none that could take focus).
PanelMarkup(i, authored, hidden, content) ==
    [node       |-> i,
     id         |-> IF authored THEN AuthorId("my-panel", i) ELSE NoId,
     role       |-> IF authored THEN "tabpanel" ELSE NULL,
     labelledby |-> IF authored THEN AuthorId("my-tab", i) ELSE NoId,
     tabindex   |-> NULL,
     hidden     |-> hidden,
     content    |-> content]

TablistMarkup(present, authored) ==
    [present |-> present,
     role |-> IF present /\ authored THEN "tablist" ELSE NULL,
     orientation |-> NULL,
     vertical |-> FALSE]

\* The markup with nT tabs and nP panels in which the tabs of pre carry
\* aria-selected="true" and the others no aria-selected; no panel is hidden.
Markup(present, authored, nT, nP, pre) ==
    [tablist |-> TablistMarkup(present, authored),
     tabs    |-> [i \in 1..nT |->
                    TabMarkup(i - 1, authored, IF (i - 1) \in pre THEN "true" ELSE NULL)],
     panels  |-> [i \in 1..nP |-> PanelMarkup(i - 1, authored, FALSE, "text")]]

\* getNextElement has not been called on its own.
NoCall == [length |-> 0, current |-> 0, direction |-> 1, loop |-> TRUE, result |-> 0]

\* No container is on the page and the registry is empty.
NoPage ==
    [containers |-> <<>>, instances |-> <<>>, built |-> <<>>, op |-> "none",
     thrown |-> NULL, log |-> <<>>]

\* The state before the constructor runs.
InitElements(userConfigs, markups) ==
    /\ userConfig \in userConfigs
    /\ markup \in markups
    /\ config = ResolveConfig(DefaultUserConfig)
    /\ phase = "new"
    /\ tablist = markup.tablist
    /\ tabs = markup.tabs
    /\ panels = markup.panels
    /\ docTabs = markup.tabs
    /\ listeners = {}
    /\ currentIndex = 0
    /\ focus = -1
    /\ last = [op |-> "none", index |-> -1, key |-> "", announce |-> FALSE,
               handled |-> FALSE, prevented |-> FALSE, thrown |-> NULL,
               effects |-> <<>>, repeat |-> FALSE, dirty |-> FALSE]
    /\ nav = NoCall

\* The same, on a page the bootstrap has nothing to do with.
InitFrom(userConfigs, markups) ==
    /\ InitElements(userConfigs, markups)
    /\ page = NoPage

----------------------------------------------------------------------------
(* The operations *)

\* The elements are as updateTabStates(currentIndex) leaves them.
Consistent ==
    /\ tabs = updateTabStates(tabs, panels, currentIndex).tabs
    /\ panels = updateTabStates(tabs, panels, currentIndex).panels

\* The record of an operation: its arguments (index, key, announce), whether
\* a handler of the instance ran (handled) and suppressed the default
\* action (prevented), the error the operation threw, what it emitted,
\* whether it repeats the operation before it (the same operation on the
\* same index) and whether it found the elements not Consistent (dirty).
Op(op, index, key, announce, handled, prevented, thrown, effects) ==
    [op |-> op, index |-> index, key |-> key, announce |-> announce,
     handled |-> handled, prevented |-> prevented, thrown |-> thrown,
     effects |-> effects,
     repeat |-> (last.op = op /\ last.index = index),
     dirty |-> ~Consistent]

\* new Tabs(container, userConfig) over the elements tl, tbs and pnls of the
\* container, the field currentIndex being ci: the configuration is
\* resolved and init runs findElements, validateElements, setupARIA,
\* setupEvents and selectInitialTab; a throw of setupARIA ends the
\* constructor.  The fields and elements afterwards, the error thrown and
\* what was emitted.
newTabs(uc, tl, tbs, pnls, ci, rnd) ==
    LET cfg   == ResolveConfig(uc)
        found == validateElements(tl, tbs, pnls)
        aria  == setupARIA(tl, tbs, pnls, cfg, rnd)
        sel   == selectInitialTab(cfg, ci, aria.tabs, aria.panels)
    IN IF aria.thrown # NULL
       THEN [config |-> cfg, tablist |-> aria.tablist, tabs |-> aria.tabs,
             panels |-> aria.panels, listeners |-> {}, currentIndex |-> ci,
             thrown |-> aria.thrown, effects |-> found]
       ELSE [config |-> cfg, tablist |-> aria.tablist, tabs |-> sel.tabs,
             panels |-> sel.panels, listeners |-> setupEvents(aria.tabs),
             currentIndex |-> sel.currentIndex,
             thrown |-> NULL, effects |-> found \o sel.effects]

\* new Tabs(container, userConfig) by the page's code.
Construct ==
    /\ phase = "new"
    /\ \E rnd \in RandomSuffixes :
         LET t == newTabs(userConfig, tablist, tabs, panels, currentIndex, rnd)
         IN /\ config' = t.config
            /\ tablist' = t.tablist
            /\ phase' = IF t.thrown # NULL THEN "thrown" ELSE "ready"
            /\ tabs' = t.tabs
            /\ panels' = t.panels
            /\ listeners' = t.listeners
            /\ currentIndex' = t.currentIndex
            /\ last' = Op("construct", -1, "", FALSE, FALSE, FALSE,
                          t.thrown, t.effects)
            /\ docTabs' = tabs'
    /\ UNCHANGED <<userConfig, markup, focus, nav, page>>

\* The elements of the document follow the instance's while they are the
\* same nodes; the clones destroy() puts in the document do not.
SameNodes == \A i \in DOMAIN tabs : docTabs[i].node = tabs[i].node

\* instance.selectTab(index, shouldAnnounce), called by the page's code.
SelectTab(index, shouldAnnounce) ==
    /\ phase = "ready"
    /\ LET r == selectTab(config, currentIndex, tabs, panels, index, shouldAnnounce)
       IN /\ currentIndex' = r.currentIndex
          /\ tabs' = r.tabs
          /\ panels' = r.panels
          /\ docTabs' = IF SameNodes THEN r.tabs ELSE docTabs
          /\ last' = Op("selectTab", index, "", shouldAnnounce, FALSE, FALSE,
                        NULL, r.effects)
    /\ UNCHANGED <<userConfig, markup, config, phase, tablist, listeners, focus, nav, page>>

\* instance.selectTab(index, shouldAnnounce), called by the page's code on
\* an instance whose onChange calls selectTab(j).
SelectTabCalling(index, shouldAnnounce, j) ==
    /\ phase = "ready"
    /\ LET r == selectTabCalling(config, currentIndex, tabs, panels, index,
                                 shouldAnnounce, j)
       IN /\ currentIndex' = r.currentIndex
          /\ tabs' = r.tabs
          /\ panels' = r.panels
          /\ docTabs' = IF SameNodes THEN r.tabs ELSE docTabs
          /\ last' = Op("selectTab", index, "", shouldAnnounce, FALSE, FALSE,
                        NULL, r.effects)
    /\ UNCHANGED <<userConfig, markup, config, phase, tablist, listeners, focus, nav, page>>

\* A click on the tab at position k of the document: handleTabClick runs
\* if that element carries the listener.
Click(k) ==
    /\ phase = "ready"
    /\ k \in 0..(Len(docTabs) - 1)
    /\ IF docTabs[k + 1].node \in listeners
       THEN LET r == handleTabClick(config, currentIndex, tabs, panels, k)
            IN /\ currentIndex' = r.currentIndex
               /\ tabs' = r.tabs
               /\ panels' = r.panels
               /\ docTabs' = r.tabs
               /\ last' = Op("click", k, "", TRUE, TRUE, TRUE, NULL, r.effects)
       ELSE /\ UNCHANGED <<currentIndex, tabs, panels, docTabs>>
            /\ last' = Op("click", k, "", FALSE, FALSE, FALSE, NULL, <<>>)
    /\ UNCHANGED <<userConfig, markup, config, phase, tablist, listeners, focus, nav, page>>

\* A variant of Keydown in which the arrows start from the selected tab
\* instead of the tab that received the event.
Keydown_FromSelectedTab(k, key) ==
    /\ phase = "ready"
    /\ k \in 0..(Len(docTabs) - 1)
    /\ IF docTabs[k + 1].node \in listeners
       THEN LET t == keyTarget(config, tabs, currentIndex, key)
                r == selectTab(config, currentIndex, tabs, panels, t.newIndex, TRUE)
            IN IF t.handled
               THEN /\ focus' = t.newIndex
                    /\ IF selectsOnKey(config)
                       THEN /\ currentIndex' = r.currentIndex
                            /\ tabs' = r.tabs
                            /\ panels' = r.panels
                            /\ docTabs' = r.tabs
                            /\ last' = Op("keydown", k, key, TRUE, TRUE, TRUE,
                                          NULL, r.effects)
                       ELSE /\ UNCHANGED <<currentIndex, tabs, panels, docTabs>>
                            /\ last' = Op("keydown", k, key, FALSE, TRUE, TRUE,
                                          NULL, <<>>)
               ELSE /\ UNCHANGED <<currentIndex, tabs, panels, docTabs, focus>>
                    /\ last' = Op("keydown", k, key, FALSE, FALSE, FALSE, NULL, <<>>)
       ELSE /\ UNCHANGED <<currentIndex, tabs, panels, docTabs, focus>>
            /\ last' = Op("keydown", k, key, FALSE, FALSE, FALSE, NULL, <<>>)
    /\ UNCHANGED <<userConfig, markup, config, phase, tablist, listeners, nav, page>>

\* A keydown of key on the tab at position k of the document: handleKeydown
\* runs if that element carries the listener.
Keydown(k, key) ==
    /\ phase = "ready"
    /\ k \in 0..(Len(docTabs) - 1)
    /\ IF docTabs[k + 1].node \in listeners
       THEN LET t == keyTarget(config, tabs, k, key)
                r == selectTab(config, currentIndex, tabs, panels, t.newIndex, TRUE)
            IN IF t.handled
               THEN /\ focus' = t.newIndex
                    /\ IF selectsOnKey(config)
                       THEN /\ currentIndex' = r.currentIndex
                            /\ tabs' = r.tabs
                            /\ panels' = r.panels
                            /\ docTabs' = r.tabs
                            /\ last' = Op("keydown", k, key, TRUE, TRUE, TRUE,
                                          NULL, r.effects)
                       ELSE /\ UNCHANGED <<currentIndex, tabs, panels, docTabs>>
                            /\ last' = Op("keydown", k, key, FALSE, TRUE, TRUE,
                                          NULL, <<>>)
               ELSE /\ UNCHANGED <<currentIndex, tabs, panels, docTabs, focus>>
                    /\ last' = Op("keydown", k, key, FALSE, FALSE, FALSE, NULL, <<>>)
       ELSE /\ UNCHANGED <<currentIndex, tabs, panels, docTabs, focus>>
            /\ last' = Op("keydown", k, key, FALSE, FALSE, FALSE, NULL, <<>>)
    /\ UNCHANGED <<userConfig, markup, config, phase, tablist, listeners, nav, page>>

\* A variant of cloneNode that yields the element itself, listeners
\* included.
cloneNode_SameElement(tab, n) == tab

\* tab.cloneNode(true): the attributes are copied, the listeners are not.
cloneNode(tab, n) == [tab EXCEPT !.node = tab.node + n]

\* instance.destroy(): every tab still in the document is replaced there by
\* a clone; this.tabs keeps the replaced elements.  An element taken out of
\* the document loses input focus.
Destroy ==
    /\ phase = "ready"
    /\ IF SameNodes
       THEN /\ docTabs' = [i \in DOMAIN tabs |-> cloneNode(tabs[i], Len(tabs))]
            /\ focus' = -1
       ELSE UNCHANGED <<docTabs, focus>>
    /\ last' = Op("destroy", -1, "", FALSE, FALSE, FALSE, NULL, <<>>)
    /\ UNCHANGED <<userConfig, markup, config, phase, tablist, tabs, panels,
                   listeners, currentIndex, nav, page>>

\* Tabs.getSelectedIndex()
getSelectedIndex == currentIndex

\* Code of the page, outside the controller, sets aria-selected or tabindex
\* of a tab of the instance, or the hidden flag of a panel.
ExternalMutate ==
    /\ phase = "ready"
    /\ \/ \E i \in DOMAIN tabs, v \in {NULL, "true", "false"} :
             /\ tabs' = [tabs EXCEPT ![i].selected = v]
             /\ panels' = panels
       \/ \E i \in DOMAIN tabs, v \in {TABINDEX_FOCUSABLE, TABINDEX_NOT_FOCUSABLE} :
             /\ tabs' = [tabs EXCEPT ![i].tabindex = v]
             /\ panels' = panels
       \/ \E i \in DOMAIN panels, v \in BOOLEAN :
             /\ panels' = [panels EXCEPT ![i].hidden = v]
             /\ tabs' = tabs
    /\ docTabs' = IF SameNodes THEN tabs' ELSE docTabs
    /\ last' = Op("mutate", -1, "", FALSE, FALSE, FALSE, NULL, <<>>)
    /\ UNCHANGED <<userConfig, markup, config, phase, tablist, listeners,
                   currentIndex, focus, nav, page>>

\* A call of getNextElement by the page's code, on an array of its own.
CallGetNextElement(length, current, direction, loop) ==
    /\ nav' = [length |-> length, current |-> current, direction |-> direction,
               loop |-> loop,
               result |-> getNextElement(length, current, direction, loop)]
    /\ UNCHANGED <<userConfig, markup, config, phase, tablist, tabs, panels,
                   docTabs, listeners, currentIndex, focus, last, page>>

----------------------------------------------------------------------------
(* index.ts: the bootstrap *)

\* instances.has(element) is false.
NoInstance == [thrown |-> "no instance"]

\* A [data-focus] container: the value of data-focus ("" for an empty
\* one), the data attributes that configure it (UNSET: absent) and the
\* elements in it.
Container(pattern, data, mk) == [pattern |-> pattern, data |-> data, markup |-> mk]

NoData == [strict |-> UNSET, activation |-> UNSET, orientation |-> UNSET, loop |-> UNSET]

\* initializeAll: the TabsConfig it extracts from the data attributes.
configFromDataset(data) ==
    [strict |-> UNSET, activation |-> data.activation,
     orientation |-> data.orientation, loop |-> data.loop,
     idPrefix |-> UNSET, announceChanges |-> UNSET]

\* The instance new Tabs(element, config) leaves in the registry.
instanceOf(c, uc, rnd) ==
    newTabs(uc, c.markup.tablist, c.markup.tabs, c.markup.panels, 0, rnd)

\* The callback of elements.forEach in initializeAll from container i on,
\* pg being the page so far: a container without a pattern and one with an
\* instance are skipped, an unknown pattern is reported, and an error
\* thrown by a constructor ends the scan.
RECURSIVE scanFrom(_, _, _)
scanFrom(pg, i, rnd) ==
    IF i > Len(pg.containers) THEN pg
    ELSE LET c == pg.containers[i]
             t == instanceOf(c, configFromDataset(c.data), rnd)
         IN IF c.pattern = "" THEN scanFrom(pg, i + 1, rnd)
            ELSE IF pg.instances[i] # NoInstance THEN scanFrom(pg, i + 1, rnd)
            ELSE IF c.pattern = "tabs"
            THEN IF t.thrown # NULL
                 THEN [pg EXCEPT !.thrown = t.thrown]
                 ELSE scanFrom([pg EXCEPT !.instances[i] = t,
                                          !.built[i] = @ + 1], i + 1, rnd)
            ELSE scanFrom([pg EXCEPT !.log = Append(@, [type |-> "warn", index |-> i])],
                          i + 1, rnd)

\* initializeAll(), run when the DOM is ready.
InitializeAll ==
    /\ page.op = "none"
    /\ \E rnd \in RandomSuffixes :
          page' = scanFrom([page EXCEPT !.op = "initializeAll", !.thrown = NULL,
                                        !.log = <<>>], 1, rnd)
    /\ UNCHANGED <<userConfig, markup, config, phase, tablist, tabs, panels,
                   docTabs, listeners, currentIndex, focus, last, nav>>

\* FocusPatterns.refresh()
Refresh ==
    /\ page.op # "none"
    /\ \E rnd \in RandomSuffixes :
          page' = scanFrom([page EXCEPT !.op = "refresh", !.thrown = NULL,
                                        !.log = <<>>], 1, rnd)
    /\ UNCHANGED <<userConfig, markup, config, phase, tablist, tabs, panels,
                   docTabs, listeners, currentIndex, focus, last, nav>>

\* The elements of container i as they are in the document: as the markup
\* has them, or as the instance constructed over them last left them.
elementsOf(pg, i) ==
    IF pg.instances[i] # NoInstance
    THEN [tablist |-> pg.instances[i].tablist, tabs |-> pg.instances[i].tabs,
          panels |-> pg.instances[i].panels]
    ELSE pg.containers[i].markup

\* FocusPatterns.init(element) by the page's code once the document is
\* loaded, element being container i and config left out: for the pattern
\* 'tabs' an instance is constructed and put in the registry, whether the
\* registry has one for the element or not; else a warning.
FocusPatternsInit(i) ==
    /\ page.op # "none"
    /\ i \in DOMAIN page.containers
    /\ page.built[i] < MaxBuilt
    /\ \E rnd \in RandomSuffixes :
          LET el == elementsOf(page, i)
              t  == newTabs(DefaultUserConfig, el.tablist, el.tabs, el.panels, 0, rnd)
              pg == [page EXCEPT !.op = "init", !.thrown = NULL, !.log = <<>>]
          IN page' = IF page.containers[i].pattern = "tabs"
                     THEN IF t.thrown # NULL
                          THEN [pg EXCEPT !.thrown = t.thrown]
                          ELSE [pg EXCEPT !.instances[i] = t, !.built[i] = @ + 1]
                     ELSE [pg EXCEPT !.log = <<[type |-> "warn", index |-> i]>>]
    /\ UNCHANGED <<userConfig, markup, config, phase, tablist, tabs, panels,
                   docTabs, listeners, currentIndex, focus, last, nav>>

----------------------------------------------------------------------------
(* Specifications *)

\* What the page's code passes for the fields that steer the interaction:
\* each is left out or set to the value that is not its default.
UserConfigs ==
    [strict : {UNSET}, activation : {UNSET, "auto"},
     orientation : {UNSET, "vertical"}, loop : {UNSET, "false"},
     idPrefix : {UNSET}, announceChanges : {UNSET, "false"}]

\* Markup without ARIA attributes, with as many panels as tabs.
MatchedMarkups ==
    {Markup(TRUE, FALSE, n, n, {}) : n \in 0..MaxTabs}

\* Markup without ARIA attributes, with every number of tabs and panels.
BareMarkups ==
    {Markup(TRUE, FALSE, nT, nP, {}) : nT \in 0..MaxTabs, nP \in 0..MaxPanels}

\* The same without a tablist element.
NoTablistMarkups ==
    {Markup(FALSE, FALSE, nT, nP, {}) : nT \in 0..MaxTabs, nP \in 0..MaxPanels}

\* Markup whose author wrote roles, ids and relations, as strict mode asks.
AuthoredMarkups ==
    {Markup(TRUE, TRUE, nT, nP, {}) : nT \in 0..MaxTabs, nP \in 0..MaxPanels}

StrictUserConfig == [DefaultUserConfig EXCEPT !.strict = "true"]

\* The controller in use: every interaction setting over markup with as
\* many panels as tabs, and the default setting over every number of tabs
\* and panels, with and without a tablist and, in strict mode, over
\* authored markup.
Init ==
    \/ InitFrom(UserConfigs, MatchedMarkups)
    \/ InitFrom({DefaultUserConfig}, BareMarkups)
    \/ InitFrom({DefaultUserConfig}, NoTablistMarkups)
    \/ InitFrom({StrictUserConfig}, AuthoredMarkups)

Next ==
    \/ Construct
    \/ \E index \in -1..Len(tabs), shouldAnnounce \in BOOLEAN :
          SelectTab(index, shouldAnnounce)
    \/ \E k \in 0..(MaxTabs - 1) : Click(k)
    \/ \E k \in 0..(MaxTabs - 1), key \in Keys : Keydown(k, key)
    \/ Destroy

Spec == Init /\ [][Next]_vars

\* Construction alone, over every configuration that steers it and over
\* markup with and without a tablist, with and without authored attributes,
\* with any set of tabs marked aria-selected="true" and with the panels
\* shown or hidden.
ConstructConfigs ==
    [strict : {UNSET, "true", "false"}, activation : {UNSET},
     orientation : {UNSET, "vertical"}, loop : {UNSET},
     idPrefix : {UNSET}, announceChanges : {UNSET, "true", "false"}]

ConstructMarkups ==
    {[Markup(present, authored, nT, nP, pre) EXCEPT
         !.panels = [i \in 1..nP |-> PanelMarkup(i - 1, authored, hidden, "text")]] :
        present \in BOOLEAN, authored \in BOOLEAN, hidden \in BOOLEAN,
        nT \in 0..MaxTabs, nP \in 0..MaxPanels, pre \in SUBSET (0..(MaxTabs - 1))}

InitConstruct == InitFrom(ConstructConfigs, ConstructMarkups)

NextConstruct == Construct

SpecConstruct == InitConstruct /\ [][NextConstruct]_vars

\* selectTab on elements the page's code has changed behind the controller.
InitMutate == InitFrom({DefaultUserConfig}, BareMarkups)

NextMutate ==
    \/ Construct
    \/ \E index \in -1..Len(tabs), shouldAnnounce \in BOOLEAN :
          SelectTab(index, shouldAnnounce)
    \/ ExternalMutate

SpecMutate == InitMutate /\ [][NextMutate]_vars

\* getNextElement on its own: every array length up to MaxLen, every
\* current index from one below the array to one past it, both directions,
\* with and without loop.
InitNav == InitFrom({DefaultUserConfig}, {Markup(TRUE, FALSE, 0, 0, {})})

NextNav ==
    \E length \in 0..MaxLen, current \in -1..MaxLen,
       direction \in {1, -1}, loop \in BOOLEAN :
          CallGetNextElement(length, current, direction, loop)

SpecNav == InitNav /\ [][NextNav]_vars

\* getNextElement on its own with any current index from three below the
\* array to two past the longest array.
InitNavAny == InitFrom({DefaultUserConfig}, {Markup(TRUE, FALSE, 0, 0, {})})

NextNavAny ==
    \E length \in 0..MaxLen, current \in -3..(MaxLen + 2),
       direction \in {1, -1}, loop \in BOOLEAN :
          CallGetNextElement(length, current, direction, loop)

SpecNavAny == InitNavAny /\ [][NextNavAny]_vars

\* Construction in strict mode, with and without a tablist, over markup in
\* which any tab and any panel may lack its role attribute, its id or both,
\* and in which the relations (aria-controls, aria-labelledby) are all
\* present or all absent.
StrictMarkups ==
    {[tablist |-> TablistMarkup(present, TRUE),
      tabs    |-> [i \in 1..nT |->
                     [TabMarkup(i - 1, TRUE, NULL) EXCEPT
                        !.role = IF (i - 1) \in tabNoRole THEN NULL ELSE @,
                        !.id   = IF (i - 1) \in tabNoId THEN NoId ELSE @,
                        !.controls = IF related THEN @ ELSE NoId]],
      panels  |-> [i \in 1..nP |->
                     [PanelMarkup(i - 1, TRUE, FALSE, "text") EXCEPT
                        !.role = IF (i - 1) \in panelNoRole THEN NULL ELSE @,
                        !.id   = IF (i - 1) \in panelNoId THEN NoId ELSE @,
                        !.labelledby = IF related THEN @ ELSE NoId]]] :
        present \in BOOLEAN, related \in BOOLEAN, nT \in 0..MaxTabs, nP \in 0..MaxPanels,
        tabNoRole \in SUBSET (0..(MaxTabs - 1)), tabNoId \in SUBSET (0..(MaxTabs - 1)),
        panelNoRole \in SUBSET (0..(MaxPanels - 1)),
        panelNoId \in SUBSET (0..(MaxPanels - 1))}

InitStrict == InitFrom({StrictUserConfig}, StrictMarkups)

NextStrict == Construct

SpecStrict == InitStrict /\ [][NextStrict]_vars

\* The controller in use in forgiving mode: over markup with a tablist and
\* as many panels as tabs in which any of the tabs, and none or all of the
\* panels, have an id of the author's; over markup without ids with every
\* number of tabs and panels, with and without a tablist.
IdMarkups ==
    {[tablist |-> TablistMarkup(TRUE, FALSE),
      tabs    |-> [i \in 1..n |->
                     [TabMarkup(i - 1, FALSE, NULL) EXCEPT
                        !.id = IF (i - 1) \in tabIds
                               THEN AuthorId("my-tab", i - 1) ELSE NoId]],
      panels  |-> [i \in 1..n |->
                     [PanelMarkup(i - 1, FALSE, FALSE, "text") EXCEPT
                        !.id = IF panelIds
                               THEN AuthorId("my-panel", i - 1) ELSE NoId]]] :
        n \in 0..MaxTabs, tabIds \in SUBSET (0..(MaxTabs - 1)),
        panelIds \in BOOLEAN}

InitRelations ==
    \/ InitFrom({DefaultUserConfig}, IdMarkups)
    \/ InitFrom({DefaultUserConfig}, BareMarkups)
    \/ InitFrom({DefaultUserConfig}, NoTablistMarkups)

NextRelations ==
    \/ Construct
    \/ \E index \in -1..Len(tabs), shouldAnnounce \in BOOLEAN :
          SelectTab(index, shouldAnnounce)
    \/ \E k \in 0..(MaxTabs - 1) : Click(k)
    \/ \E k \in 0..(MaxTabs - 1), key \in Keys : Keydown(k, key)
    \/ Destroy

SpecRelations == InitRelations /\ [][NextRelations]_vars

\* Construction in forgiving mode over markup with a tablist in which the
\* tablist, every tab and every panel has no role, the role of the pattern
\* or another role, and in which the relations are absent or point at
\* elements that are not the partners.
TablistRoles == {NULL, "tablist", "presentation"}
TabRoles == {NULL, "tab", "button"}
PanelRoles == {NULL, "tabpanel", "region"}

RoleMarkups ==
    {[tablist |-> [TablistMarkup(TRUE, FALSE) EXCEPT !.role = tablistRole],
      tabs    |-> [i \in 1..nT |->
                     [TabMarkup(i - 1, FALSE, NULL) EXCEPT
                        !.role = tabRole[i],
                        !.controls = IF stale THEN AuthorId("other", i - 1)
                                     ELSE NoId]],
      panels  |-> [i \in 1..nP |->
                     [PanelMarkup(i - 1, FALSE, FALSE, "text") EXCEPT
                        !.role = panelRole[i],
                        !.labelledby = IF stale THEN AuthorId("other", i - 1)
                                       ELSE NoId]]] :
        tablistRole \in TablistRoles, stale \in BOOLEAN,
        nT \in 0..MaxTabs, nP \in 0..MaxPanels,
        tabRole \in [1..MaxTabs -> TabRoles],
        panelRole \in [1..MaxPanels -> PanelRoles]}

InitRoles == InitFrom({DefaultUserConfig}, RoleMarkups)

NextRoles == Construct

SpecRoles == InitRoles /\ [][NextRoles]_vars

\* The controller in use with announceChanges left out, true and false, in
\* either activation mode.
AnnounceConfigs ==
    [strict : {UNSET}, activation : {UNSET, "auto"}, orientation : {UNSET},
     loop : {UNSET}, idPrefix : {UNSET}, announceChanges : {UNSET, "true", "false"}]

InitAnnounce == InitFrom(AnnounceConfigs, MatchedMarkups)

NextAnnounce ==
    \/ Construct
    \/ \E index \in -1..Len(tabs), shouldAnnounce \in BOOLEAN :
          SelectTab(index, shouldAnnounce)
    \/ \E k \in 0..(MaxTabs - 1) : Click(k)
    \/ \E k \in 0..(MaxTabs - 1), key \in Keys : Keydown(k, key)

SpecAnnounce == InitAnnounce /\ [][NextAnnounce]_vars

\* The bootstrap over a page of up to MaxContainers containers.  A
\* container is marked data-focus="tabs", with no data attribute, with
\* data-strict="true" or with the three attributes initializeAll reads, or
\* carries another pattern or an empty data-focus; its elements are a full
\* set without ARIA attributes, or lack the tablist, the tabs or the panels,
\* or have a tab or a panel too many.
DataSets ==
    {NoData,
     [NoData EXCEPT !.strict = "true"],
     [NoData EXCEPT !.activation = "auto", !.orientation = "vertical", !.loop = "false"]}

BootMarkups ==
    {Markup(TRUE, FALSE, MaxTabs, MaxPanels, {}),
     Markup(FALSE, FALSE, MaxTabs, MaxPanels, {}),
     Markup(TRUE, FALSE, 0, MaxPanels, {}),
     Markup(TRUE, FALSE, MaxTabs, 0, {}),
     Markup(TRUE, FALSE, MaxTabs, MaxPanels - 1, {}),
     Markup(TRUE, FALSE, MaxTabs - 1, MaxPanels, {})}

Containers ==
    {Container("tabs", data, mk) : data \in DataSets, mk \in BootMarkups}
       \cup {Container("accordion", NoData, Markup(TRUE, FALSE, 0, 0, {})),
             Container("", NoData, Markup(TRUE, FALSE, 0, 0, {}))}

Pages ==
    {[NoPage EXCEPT !.containers = cs,
                    !.instances = [i \in DOMAIN cs |-> NoInstance],
                    !.built = [i \in DOMAIN cs |-> 0]] :
        cs \in UNION {[1..n -> Containers] : n \in 0..MaxContainers}}

InitBootstrap ==
    /\ InitElements({DefaultUserConfig}, {Markup(TRUE, FALSE, 0, 0, {})})
    /\ page \in Pages

NextBootstrap ==
    \/ InitializeAll
    \/ Refresh

SpecBootstrap == InitBootstrap /\ [][NextBootstrap]_vars

\* The bootstrap and the page's own calls of FocusPatterns.init.
NextInit ==
    \/ InitializeAll
    \/ Refresh
    \/ \E i \in 1..MaxContainers : FocusPatternsInit(i)

SpecInit == InitBootstrap /\ [][NextInit]_vars

\* The keyboard with loop left out, 'true' and 'false', in either
\* orientation and activation mode.
LoopConfigs ==
    [strict : {UNSET}, activation : {UNSET, "auto"},
     orientation : {UNSET, "vertical"}, loop : {UNSET, "true", "false"},
     idPrefix : {UNSET}, announceChanges : {UNSET}]

InitLoop == InitFrom(LoopConfigs, MatchedMarkups)

NextLoop ==
    \/ Construct
    \/ \E k \in 0..(MaxTabs - 1), key \in Keys : Keydown(k, key)

SpecLoop == InitLoop /\ [][NextLoop]_vars

\* selectTab on an instance whose onChange selects a tab itself, with and
\* without announcements, over markup with as many panels as tabs.
ReentrantConfigs ==
    [strict : {UNSET}, activation : {UNSET}, orientation : {UNSET},
     loop : {UNSET}, idPrefix : {UNSET}, announceChanges : {UNSET, "false"}]

InitReentrant == InitFrom(ReentrantConfigs, MatchedMarkups)

NextReentrant ==
    \/ Construct
    \/ \E index \in -1..Len(tabs), shouldAnnounce \in BOOLEAN, j \in -1..Len(tabs) :
          SelectTabCalling(index, shouldAnnounce, j)

SpecReentrant == InitReentrant /\ [][NextReentrant]_vars

\* The controller in use in forgiving and in strict mode, in either
\* activation mode, over markup with every number of tabs and panels, with
\* and without authored attributes, the panels shown or hidden.
SurplusConfigs ==
    [strict : {UNSET, "true"}, activation : {UNSET, "auto"}, orientation : {UNSET},
     loop : {UNSET}, idPrefix : {UNSET}, announceChanges : {UNSET}]

SurplusMarkups ==
    {[Markup(TRUE, authored, nT, nP, {}) EXCEPT
         !.panels = [i \in 1..nP |-> PanelMarkup(i - 1, authored, hidden, "text")]] :
        authored \in BOOLEAN, hidden \in BOOLEAN,
        nT \in 0..MaxTabs, nP \in 0..MaxPanels}

InitSurplus == InitFrom(SurplusConfigs, SurplusMarkups)

NextSurplus ==
    \/ Construct
    \/ \E index \in -1..Len(tabs), shouldAnnounce \in BOOLEAN :
          SelectTab(index, shouldAnnounce)
    \/ \E k \in 0..(MaxTabs - 1) : Click(k)
    \/ \E k \in 0..(MaxTabs - 1), key \in Keys : Keydown(k, key)

SpecSurplus == InitSurplus /\ [][NextSurplus]_vars

\* Construction in forgiving mode over panels that hold text only, a link
\* with or without href, a button or an input, enabled or disabled, or an
\* element with tabindex="0", the panels carrying no tabindex or "0".
PanelContents ==
    {"text", "a-href", "a-nohref", "button", "button-disabled", "input",
     "input-disabled", "tabindex-0"}

PanelMarkups ==
    {[Markup(TRUE, FALSE, nT, nP, {}) EXCEPT
         !.panels = [i \in 1..nP |->
                        [PanelMarkup(i - 1, FALSE, FALSE, content[i]) EXCEPT
                            !.tabindex = stop]]] :
        nT \in 0..MaxTabs, nP \in 0..MaxPanels,
        content \in [1..MaxPanels -> PanelContents],
        stop \in {NULL, TABINDEX_FOCUSABLE}}

InitPanels == InitFrom({DefaultUserConfig}, PanelMarkups)

NextPanels == Construct

SpecPanels == InitPanels /\ [][NextPanels]_vars

----------------------------------------------------------------------------
(* Properties *)

\* 0 <= i < |tabs|
InRange(i) == 0 <= i /\ i < Len(tabs)

TabPositions == 0..(Len(tabs) - 1)
PanelPositions == 0..(Len(panels) - 1)

EffectsOfType(effects, type) == {j \in DOMAIN effects : effects[j].type = type}

\* C1, as stated: after selectTab(index) with a valid index on an instance
\* with at least one tab, exactly one tab is marked selected and exactly one
\* panel is visible, the ones at index.
C1_ExactlyOnePairShown ==
    (phase = "ready" /\ last.op = "selectTab" /\ InRange(last.index)) =>
        /\ SelectedTabs(tabs) = {last.index}
        /\ VisiblePanels(panels) = {last.index}

\* C1, amended: after selectTab(index) with a valid index, whatever the
\* elements held before, the tab at index is the one tab marked selected;
\* among the panels at a tab's position the panel at index, if there is
\* one, is the one visible panel; and with as many panels as tabs the panel
\* at index is the one visible panel.
C1_SelectTabReconciles ==
    (phase = "ready" /\ last.op = "selectTab" /\ InRange(last.index)) =>
        /\ SelectedTabs(tabs) = {last.index}
        /\ VisiblePanels(panels) \cap TabPositions = {last.index} \cap PanelPositions
        /\ Len(panels) = Len(tabs) => VisiblePanels(panels) = {last.index}

\* A selectTab on two or more pairs that found the elements changed by the
\* page's code.
C1_Witness ==
    /\ phase = "ready" /\ last.op = "selectTab" /\ InRange(last.index)
    /\ last.dirty
    /\ Len(tabs) = Len(panels) /\ Len(tabs) >= 2

\* C2, as stated: in every state after construction exactly one tab is
\* marked selected, it is tabs[getSelectedIndex()], and it is the only tab
\* with tabindex "0", every other tab having tabindex "-1".
C2_OneSelectedTabAlways ==
    phase = "ready" =>
        /\ SelectedTabs(tabs) = {getSelectedIndex}
        /\ FocusableTabs(tabs) = {getSelectedIndex}
        /\ \A i \in TabPositions \ {getSelectedIndex} :
              tabs[i + 1].tabindex = TABINDEX_NOT_FOCUSABLE

\* C2, amended: the same in every state after the construction of an
\* instance with at least one tab.
C2_OneSelectedTab ==
    (phase = "ready" /\ Len(tabs) >= 1) =>
        /\ SelectedTabs(tabs) = {getSelectedIndex}
        /\ FocusableTabs(tabs) = {getSelectedIndex}
        /\ \A i \in TabPositions \ {getSelectedIndex} :
              tabs[i + 1].tabindex = TABINDEX_NOT_FOCUSABLE

\* A key has moved the selection off the initial tab.
C2_Witness ==
    /\ phase = "ready" /\ Len(tabs) >= 2
    /\ last.op = "keydown" /\ last.handled
    /\ getSelectedIndex = 1

C4_OutOfRangeRejected ==
    [][(last'.op = "selectTab" /\ ~InRange(last'.index)) =>
          /\ UNCHANGED <<currentIndex, tabs, panels, docTabs, focus>>
          /\ Len(last'.effects) = 1
          /\ last'.effects[1].type = "warn"
          /\ last'.effects[1].msg = ERR_INVALID_TAB_INDEX]_vars

\* selectTab(n) on an n-tab instance, n >= 2, whose tab 1 is selected.
C4_Witness ==
    /\ phase = "ready" /\ Len(tabs) >= 2
    /\ last.op = "selectTab" /\ last.index = Len(tabs)
    /\ currentIndex = 1

\* C5: a selectTab(i) right after a selectTab(i), i valid, changes neither
\* currentIndex nor an attribute, and asks for no announcement and calls no
\* onChange.
C5_SelectTwice ==
    [][(/\ last.op = "selectTab" /\ InRange(last.index)
        /\ last'.op = "selectTab" /\ last'.index = last.index /\ last'.repeat) =>
          /\ UNCHANGED <<currentIndex, tabs, panels, docTabs, focus>>
          /\ last'.effects = <<>>]_vars

\* The second of two selectTab(1) calls that asked for an announcement, on
\* an instance that announces.
C5_Witness ==
    /\ phase = "ready" /\ config.announceChanges
    /\ last.op = "selectTab" /\ last.index = 1 /\ InRange(1)
    /\ last.repeat /\ last.announce

\* C6: a selectTab(index) with a valid index, called by the page or by a
\* click, emits nothing if index was selected before; else it calls onChange
\* exactly once, with index and tabs[index], after the announcement if there
\* is one, and the elements already show index selected at each of the two.
C6_EffectsOnChangeOnly ==
    [][(/\ last'.op \in {"selectTab", "click"}
        /\ last'.op = "click" => last'.handled
        /\ InRange(last'.index)) =>
          LET e == last'.effects
              index == last'.index
          IN /\ currentIndex = index => e = <<>>
             /\ currentIndex # index =>
                   /\ Cardinality(EffectsOfType(e, "onChange")) = 1
                   /\ Cardinality(EffectsOfType(e, "announce")) <= 1
             /\ \A j \in DOMAIN e :
                   /\ e[j].type \in {"announce", "onChange"}
                   /\ e[j].selectedNow = {index}
                   /\ e[j].visibleNow \cap TabPositions = {index} \cap PanelPositions
                   /\ e[j].index = index
                   /\ e[j].node = tabs'[index + 1].node
             /\ \A j \in EffectsOfType(e, "announce") :
                   \A k \in EffectsOfType(e, "onChange") : j < k]_vars

\* A selectTab that asked for the announcement and then called onChange.
C6_Witness ==
    /\ phase = "ready" /\ last.op = "selectTab" /\ InRange(last.index)
    /\ Len(last.effects) = 2
    /\ last.effects[1].type = "announce"
    /\ last.effects[2].type = "onChange"

\* The first tab the markup marks aria-selected="true", -1 if none.
MarkupPreselected ==
    IF SelectedTabs(markup.tabs) = {} THEN -1
    ELSE CHOOSE i \in SelectedTabs(markup.tabs) :
            \A j \in SelectedTabs(markup.tabs) : i <= j

\* C7: after construction getSelectedIndex() is the index of the first tab
\* that carries aria-selected="true" in the markup handed to the
\* constructor, and 0 if there is none, in forgiving and in strict mode.
C7_InitialTabFromMarkup ==
    (phase = "ready" /\ last.op = "construct") =>
        getSelectedIndex = (IF MarkupPreselected >= 0 THEN MarkupPreselected ELSE 0)

\* C8: after the forgiving-mode construction over n tabs and n panels,
\* n >= 1, none of them pre-selected, getSelectedIndex() is 0, tab 0 is
\* selected with tabindex "0", panel 0 is visible, every other tab is
\* unselected with tabindex "-1" and every other panel is hidden.
C8_FreshInstanceShowsFirstPair ==
    (/\ phase = "ready" /\ last.op = "construct"
     /\ ~config.strict
     /\ Len(tabs) >= 1 /\ Len(panels) = Len(tabs)
     /\ MarkupPreselected = -1) =>
        /\ getSelectedIndex = 0
        /\ tabs[1].selected = "true" /\ tabs[1].tabindex = TABINDEX_FOCUSABLE
        /\ ~panels[1].hidden
        /\ \A i \in DOMAIN tabs \ {1} :
              /\ tabs[i].selected = "false"
              /\ tabs[i].tabindex = TABINDEX_NOT_FOCUSABLE
        /\ \A i \in DOMAIN panels \ {1} : panels[i].hidden

\* A forgiving-mode instance just constructed over MaxTabs pairs whose
\* panels were all visible in the markup.
C8_Witness ==
    /\ phase = "ready" /\ last.op = "construct" /\ ~config.strict
    /\ Len(tabs) = MaxTabs /\ Len(panels) = Len(tabs)
    /\ MarkupPreselected = -1
    /\ \A i \in DOMAIN markup.panels : ~markup.panels[i].hidden

\* C9: the construction asks for no announcement, whichever tab it selects
\* and whatever announceChanges is.
C9_ConstructionIsSilent ==
    last.op = "construct" => EffectsOfType(last.effects, "announce") = {}

\* A construction that selected a tab other than tab 0 on an instance that
\* announces changes.
C9_Witness ==
    /\ phase = "ready" /\ last.op = "construct"
    /\ config.announceChanges
    /\ getSelectedIndex # 0

ArrowKeys == {"ArrowLeft", "ArrowRight", "ArrowUp", "ArrowDown"}

\* The arrow keys of an orientation, and the direction an arrow asks for.
ArrowsOf(orientation) ==
    IF orientation = "horizontal" THEN {"ArrowLeft", "ArrowRight"}
    ELSE {"ArrowUp", "ArrowDown"}

DirectionOf(key) == IF key \in {"ArrowLeft", "ArrowUp"} THEN -1 ELSE 1

\* C10: with activation 'manual', an arrow key of the configured orientation
\* on tab k of a live instance moves the focus to the tab at
\* getNextElement(|tabs|, k, direction, loop) and changes neither
\* currentIndex nor an attribute of a tab or a panel, and asks for no
\* announcement and calls no onChange.
C10_ManualArrowMovesFocusOnly ==
    [][(/\ last'.op = "keydown"
        /\ last'.key \in ArrowsOf(config.orientation)
        /\ config.activation = "manual"
        /\ docTabs[last'.index + 1].node \in listeners) =>
          /\ focus' = getNextElement(Len(tabs), last'.index, DirectionOf(last'.key),
                                     config.loop = "true")
          /\ UNCHANGED <<currentIndex, tabs, panels, docTabs>>
          /\ last'.effects = <<>>]_vars

\* In manual mode the focus went to tab 1 on an arrow key on tab 0 while
\* tab 0 stays selected.
C10_Witness ==
    /\ phase = "ready" /\ config.activation = "manual"
    /\ last.op = "keydown" /\ last.key \in ArrowKeys /\ last.handled
    /\ last.index = 0 /\ focus = 1 /\ getSelectedIndex = 0

\* current + direction, wrapped into 0..(n - 1) with loop and clamped to
\* 0..(n - 1) without, for 0 <= current < n.
Wrapped(n, current, direction) == (current + direction) % n

Max(a, b) == IF a >= b THEN a ELSE b
Min(a, b) == IF a <= b THEN a ELSE b

Clamped(n, current, direction) == Max(0, Min(n - 1, current + direction))

TargetOf(n, current, direction, loop) ==
    IF loop THEN Wrapped(n, current, direction) ELSE Clamped(n, current, direction)

\* The step is a keydown of key on a document tab that carries the
\* instance's listener.
KeydownOnLiveTab ==
    /\ last'.op = "keydown"
    /\ docTabs[last'.index + 1].node \in listeners

\* C11: with activation 'auto', an arrow key of the configured orientation
\* on tab k of a live instance moves the focus to the target tab t and makes
\* getSelectedIndex() = t; onChange is called exactly once, with (t, tabs[t]),
\* when t differs from the index selected before, and not at all otherwise.
C11_AutoArrowSelects ==
    [][(/\ KeydownOnLiveTab
        /\ last'.key \in ArrowsOf(config.orientation)
        /\ config.activation = "auto") =>
          LET t == TargetOf(Len(tabs), last'.index, DirectionOf(last'.key),
                            config.loop = "true")
              calls == EffectsOfType(last'.effects, "onChange")
          IN /\ focus' = t
             /\ getSelectedIndex' = t
             /\ IF t # currentIndex
                THEN /\ Cardinality(calls) = 1
                     /\ \A j \in calls : /\ last'.effects[j].index = t
                                         /\ last'.effects[j].node = tabs'[t + 1].node
                ELSE calls = {}]_vars

\* ArrowRight on tab 0 in auto mode, with tab 0 selected before: focus and
\* selection are at tab 1 and onChange was called once with (1, tabs[1]).
C11_Witness ==
    /\ phase = "ready" /\ config.activation = "auto"
    /\ last.op = "keydown" /\ last.key = "ArrowRight" /\ last.handled
    /\ last.index = 0 /\ focus = 1 /\ getSelectedIndex = 1
    /\ Cardinality(EffectsOfType(last.effects, "onChange")) = 1
    /\ \A j \in EffectsOfType(last.effects, "onChange") :
          last.effects[j].index = 1 /\ last.effects[j].node = tabs[2].node

\* C12: an arrow key is acted on only if it is of the configured
\* orientation, ArrowLeft and ArrowUp asking for direction -1 and ArrowRight
\* and ArrowDown for +1; an arrow key of the other orientation, and any key
\* other than the arrows, Home and End, changes nothing: the default action
\* is not suppressed, the focus does not move, currentIndex and the elements
\* are unchanged, nothing is emitted.
C12_OnlyMatchingArrowsAct ==
    [][KeydownOnLiveTab =>
          /\ (last'.key \in ArrowsOf(config.orientation) =>
                /\ last'.prevented
                /\ focus' = TargetOf(Len(tabs), last'.index,
                                     IF last'.key \in {"ArrowLeft", "ArrowUp"}
                                     THEN -1 ELSE 1,
                                     config.loop = "true"))
          /\ (last'.key \notin (ArrowsOf(config.orientation) \cup {"Home", "End"}) =>
                /\ ~last'.prevented
                /\ UNCHANGED <<focus, currentIndex, tabs, panels, docTabs,
                               tablist, listeners>>
                /\ last'.effects = <<>>)]_vars

\* An arrow key of the other orientation and a key that is no arrow, Home
\* or End were pressed on a focused live tab and the handler left it alone.
C12_Witness ==
    /\ phase = "ready" /\ last.op = "keydown"
    /\ last.key \in ((ArrowKeys \ ArrowsOf(config.orientation)) \cup {"Enter"})
    /\ docTabs[last.index + 1].node \in listeners
    /\ ~last.prevented /\ focus = 1 /\ last.index = 1

\* Where Home and End go.
JumpTarget(key) == IF key = "Home" THEN 0 ELSE Len(tabs) - 1

\* C13, as stated: in either activation mode Home on a tab of a live
\* instance makes 0 the selected index and End makes |tabs| - 1 the selected
\* index.
C13_HomeEndSelectInEitherMode ==
    [][(KeydownOnLiveTab /\ last'.key \in {"Home", "End"}) =>
          getSelectedIndex' = JumpTarget(last'.key)]_vars

\* C13, amended: Home and End on a tab of a live instance suppress the
\* default action and move the focus to tab 0 and to tab |tabs| - 1 in
\* either activation mode; with activation 'auto' that index becomes the
\* selected one, with activation 'manual' currentIndex and the elements stay
\* as they are and nothing is emitted.
C13_HomeEndSelectInAutoOnly ==
    [][(KeydownOnLiveTab /\ last'.key \in {"Home", "End"}) =>
          /\ last'.prevented
          /\ focus' = JumpTarget(last'.key)
          /\ (config.activation = "auto" =>
                getSelectedIndex' = JumpTarget(last'.key))
          /\ (config.activation = "manual" =>
                /\ UNCHANGED <<currentIndex, tabs, panels, docTabs>>
                /\ last'.effects = <<>>)]_vars

\* In manual mode End was pressed on tab 0: the focus is on the last tab
\* and tab 0 is still the selected one.
C13_Witness ==
    /\ phase = "ready" /\ config.activation = "manual" /\ Len(tabs) >= 2
    /\ last.op = "keydown" /\ last.key = "End" /\ last.index = 0 /\ last.prevented
    /\ focus = Len(tabs) - 1 /\ getSelectedIndex = 0
    /\ SelectedTabs(tabs) = {0}

\* C14: a click on tab k of a live instance suppresses the default action
\* and selects k: afterwards getSelectedIndex() = k and tab k is the one
\* marked selected, in either activation mode and whichever tab had the
\* focus or the selection; the focus is not moved.
C14_ClickSelects ==
    [][(/\ last'.op = "click"
        /\ docTabs[last'.index + 1].node \in listeners) =>
          /\ last'.prevented
          /\ getSelectedIndex' = last'.index
          /\ SelectedTabs(tabs') = {last'.index}
          /\ tabs' = selectTab(config, currentIndex, tabs, panels, last'.index, TRUE).tabs
          /\ panels' = selectTab(config, currentIndex, tabs, panels, last'.index, TRUE).panels
          /\ last'.effects =
               selectTab(config, currentIndex, tabs, panels, last'.index, TRUE).effects
          /\ UNCHANGED focus]_vars

\* In manual mode, with the focus on tab 0, a click on tab 1 selected it.
C14_Witness ==
    /\ phase = "ready" /\ config.activation = "manual"
    /\ last.op = "click" /\ last.index = 1 /\ last.prevented
    /\ focus = 0 /\ getSelectedIndex = 1 /\ SelectedTabs(tabs) = {1}
    /\ EffectsOfType(last.effects, "onChange") # {}

\* The call recorded in nav is one the laws speak of: n >= 1 and
\* 0 <= current < n.
NavInRange == nav.length >= 1 /\ 0 <= nav.current /\ nav.current < nav.length

\* C15 (wrap law): with loop, for every length n >= 1, every current with
\* 0 <= current < n and either direction, getNextElement returns
\* (current + direction) modulo n: 0 one step past the last index and n - 1
\* one step before the first.
C15_WrapLaw ==
    (NavInRange /\ nav.loop) =>
       /\ nav.result = Wrapped(nav.length, nav.current, nav.direction)
       /\ (nav.current = nav.length - 1 /\ nav.direction = 1 => nav.result = 0)
       /\ (nav.current = 0 /\ nav.direction = -1 => nav.result = nav.length - 1)

\* One step before the first of three elements wrapped to the last.
C15_Witness ==
    /\ nav.loop /\ nav.length = 3 /\ nav.current = 0 /\ nav.direction = -1
    /\ nav.result = 2

\* C16 (clamp law): without loop, for every length n >= 1, every current
\* with 0 <= current < n and either direction, getNextElement returns
\* max(0, min(n - 1, current + direction)): n - 1 one step past the last
\* index and 0 one step before the first.
C16_ClampLaw ==
    (NavInRange /\ ~nav.loop) =>
       /\ nav.result = Clamped(nav.length, nav.current, nav.direction)
       /\ (nav.current = nav.length - 1 /\ nav.direction = 1 =>
             nav.result = nav.length - 1)
       /\ (nav.current = 0 /\ nav.direction = -1 => nav.result = 0)

\* One step past the last of three elements stayed on the last.
C16_Witness ==
    /\ ~nav.loop /\ nav.length = 3 /\ nav.current = 2 /\ nav.direction = 1
    /\ nav.result = 2

\* The instance has done nothing to the container: every element is as the
\* markup had it, no tab carries a listener and currentIndex has its
\* initial value.
Inert ==
    /\ tablist = markup.tablist
    /\ tabs = markup.tabs
    /\ panels = markup.panels
    /\ docTabs = markup.tabs
    /\ listeners = {}
    /\ currentIndex = 0

\* C17: when the container has no tablist element the construction reports
\* an error and the instance is inert: no attribute of a tab or a panel is
\* written, no listener is attached to a tab, and selectTab calls, clicks
\* and keys change neither currentIndex nor an element.
C17_NoTablistMeansInert ==
    (phase = "ready" /\ ~markup.tablist.present) => Inert

\* C18: when the container has a tablist but no tab or no panel the
\* construction reports an error and aborts as for a missing tablist: no
\* attribute of the tablist, a tab or a panel is written, no listener is
\* attached, and selectTab calls change nothing.
C18_NoTabsOrPanelsMeansInert ==
    (/\ phase = "ready" /\ markup.tablist.present
     /\ (Len(markup.tabs) = 0 \/ Len(markup.panels) = 0)) => Inert

\* The container has a tablist, at least one panel and more tabs than
\* panels.
TabsOutnumberPanels ==
    /\ markup.tablist.present
    /\ Len(markup.panels) >= 1
    /\ Len(markup.tabs) > Len(markup.panels)

\* The step is the construction over such a container: it reports the
\* mismatch as a warning and goes on; after it every pair below |panels| has
\* ids, roles, both relations and its selected, tabindex and hidden state;
\* a tab without a panel has the id, role and aria-controls of the markup
\* and carries the listeners.
MismatchSetup ==
    (last'.op = "construct" /\ TabsOutnumberPanels) =>
       /\ phase' = "ready"
       /\ \E j \in EffectsOfType(last'.effects, "warn") :
             last'.effects[j].msg = ERR_MISMATCH_COUNT
       /\ EffectsOfType(last'.effects, "error") = {}
       /\ \A i \in DOMAIN panels' :
             /\ tabs'[i].id # NoId /\ panels'[i].id # NoId
             /\ tabs'[i].role = "tab" /\ panels'[i].role = "tabpanel"
             /\ tabs'[i].controls = panels'[i].id
             /\ panels'[i].labelledby = tabs'[i].id
             /\ tabs'[i].selected = BoolStr(i - 1 = currentIndex')
             /\ tabs'[i].tabindex = (IF i - 1 = currentIndex'
                                     THEN TABINDEX_FOCUSABLE
                                     ELSE TABINDEX_NOT_FOCUSABLE)
             /\ panels'[i].hidden = (i - 1 # currentIndex')
       /\ \A i \in DOMAIN tabs' :
             /\ tabs'[i].node \in listeners'
             /\ (i > Len(panels') =>
                   /\ tabs'[i].id = markup.tabs[i].id
                   /\ tabs'[i].role = markup.tabs[i].role
                   /\ tabs'[i].controls = markup.tabs[i].controls)

\* The step selects a tab that has no panel while a tab with a panel was
\* selected.
SelectsTabWithoutPanel ==
    /\ phase = "ready" /\ TabsOutnumberPanels
    /\ last'.op \in {"selectTab", "click", "keydown"}
    /\ currentIndex < Len(panels)
    /\ currentIndex' >= Len(panels)

\* C19, as stated: when tabs outnumber panels the construction warns and
\* goes on, the pairs below |panels| are set up in full, a tab without a
\* panel gets no id, role or aria-controls but carries the listeners, and
\* selecting such a tab changes the hidden flag of no panel.
C19_SelectingPanellessTabKeepsPanels ==
    [][/\ MismatchSetup
       /\ (SelectsTabWithoutPanel =>
             \A i \in DOMAIN panels : panels'[i].hidden = panels[i].hidden)]_vars

\* C19, amended: the same construction; selecting a tab without a panel
\* shows no panel and hides the panel that was visible, so that afterwards
\* every panel is hidden.
C19_SelectingPanellessTabHidesPanels ==
    [][/\ MismatchSetup
       /\ (SelectsTabWithoutPanel =>
             /\ ~panels[currentIndex + 1].hidden
             /\ panels'[currentIndex + 1].hidden
             /\ VisiblePanels(panels') = {}
             /\ SelectedTabs(tabs') = {currentIndex'})]_vars

\* Over markup without ARIA attributes with more tabs than panels, a click
\* selected a tab without a panel: that tab has no id nor role, the first
\* pair has both, and every panel is hidden.
C19_Witness ==
    /\ phase = "ready" /\ TabsOutnumberPanels
    /\ last.op = "click" /\ last.prevented /\ last.index >= Len(panels)
    /\ getSelectedIndex = last.index
    /\ tabs[last.index + 1].id = NoId /\ tabs[last.index + 1].role = NULL
    /\ tabs[1].id # NoId /\ tabs[1].controls = panels[1].id
    /\ VisiblePanels(panels) = {}

\* The positions of the markup at which there is a tab and a panel.
MarkupPairs == {i \in DOMAIN markup.tabs : i <= Len(markup.panels)}

\* The four checks of strict mode on the pair at position i of the markup,
\* in their order, each with its message: TRUE where the check fails.
StrictChecks(i) ==
    << [fails |-> markup.tabs[i].role = NULL,   msg |-> ERR_MISSING_TAB_ROLE],
       [fails |-> markup.panels[i].role = NULL, msg |-> ERR_MISSING_PANEL_ROLE],
       [fails |-> markup.tabs[i].id = NoId,     msg |-> ERR_MISSING_TAB_ID],
       [fails |-> markup.panels[i].id = NoId,   msg |-> ERR_MISSING_PANEL_ID] >>

FailingPairs == {i \in MarkupPairs : \E c \in 1..4 : StrictChecks(i)[c].fails}

\* The message of the first failed check of the lowest failing pair, NULL
\* if no pair fails.
ExpectedStrictError ==
    IF FailingPairs = {} THEN NULL
    ELSE LET i == CHOOSE i \in FailingPairs : \A j \in FailingPairs : i <= j
             c == CHOOSE c \in 1..4 :
                    /\ StrictChecks(i)[c].fails
                    /\ \A d \in 1..4 : StrictChecks(i)[d].fails => c <= d
         IN StrictChecks(i)[c].msg

\* C20, as stated: in strict mode the construction throws if a pair of the
\* markup lacks a tab role, a panel role, a tab id or a panel id, the error
\* naming the first failed check in that order for the lowest failing
\* index, and does not throw if every pair passes the four checks.
C20_StrictThrowsOnFirstFailure ==
    (last.op = "construct" /\ config.strict) =>
       /\ last.thrown = ExpectedStrictError
       /\ (phase = "thrown") = (FailingPairs # {})

\* C20, amended: the same when the container has a tablist; without a
\* tablist the strict-mode construction checks no pair and does not throw.
C20_StrictThrowsOnFirstFailureWithTablist ==
    (last.op = "construct" /\ config.strict) =>
       IF markup.tablist.present
       THEN /\ last.thrown = ExpectedStrictError
            /\ (phase = "thrown") = (FailingPairs # {})
       ELSE /\ last.thrown = NULL
            /\ phase = "ready"

\* The first pair is complete and the second lacks the panel's role and
\* the tab's id: the construction threw the missing panel role.
C20_Witness ==
    /\ phase = "thrown" /\ last.op = "construct" /\ config.strict
    /\ markup.tablist.present
    /\ Len(markup.tabs) >= 2 /\ Len(markup.panels) >= 2
    /\ 1 \notin FailingPairs
    /\ markup.tabs[2].role # NULL /\ markup.panels[2].role = NULL
    /\ markup.tabs[2].id = NoId
    /\ last.thrown = ERR_MISSING_PANEL_ROLE

\* The strict-mode construction threw for a tab without a role.
ThrewMissingTabRole ==
    /\ phase = "thrown" /\ last.op = "construct" /\ config.strict
    /\ last.thrown = ERR_MISSING_TAB_ROLE

\* The dynamic state of the pair at position i is that of the markup.
DynamicStateAsMarkup(i) ==
    /\ (i \in DOMAIN tabs =>
          /\ tabs[i].selected = markup.tabs[i].selected
          /\ tabs[i].tabindex = markup.tabs[i].tabindex)
    /\ (i \in DOMAIN panels => panels[i].hidden = markup.panels[i].hidden)

\* The lowest position of the markup whose pair fails a strict-mode check.
FirstFailingPair == CHOOSE i \in FailingPairs : \A j \in FailingPairs : i <= j

C22_StrictWritesDynamicStateOnly ==
    (last.op = "construct" /\ config.strict) =>
       /\ tablist.role = markup.tablist.role
       /\ \A i \in DOMAIN tabs :
             /\ tabs[i].role = markup.tabs[i].role
             /\ tabs[i].id = markup.tabs[i].id
             /\ tabs[i].controls = markup.tabs[i].controls
       /\ \A i \in DOMAIN panels :
             /\ panels[i].role = markup.panels[i].role
             /\ panels[i].id = markup.panels[i].id
             /\ panels[i].labelledby = markup.panels[i].labelledby
             /\ panels[i].tabindex = markup.panels[i].tabindex
       /\ (phase = "ready" => tablist = markup.tablist)

\* The positions at which there is a tab and a panel.
Pairs == {i \in DOMAIN tabs : i <= Len(panels)}

\* Every pair has ids and both relations, and an id of the markup is kept,
\* on the elements tbs and pnls.
PairsRelated(tbs, pnls) ==
    \A i \in DOMAIN tbs :
       i <= Len(pnls) =>
          /\ tbs[i].id # NoId /\ pnls[i].id # NoId
          /\ tbs[i].controls = pnls[i].id
          /\ pnls[i].labelledby = tbs[i].id
          /\ (markup.tabs[i].id # NoId => tbs[i].id = markup.tabs[i].id)
          /\ (markup.panels[i].id # NoId => pnls[i].id = markup.panels[i].id)

\* No id and no relation of a tab or a panel changes in the step.
IdsAndRelationsKept ==
    /\ \A i \in DOMAIN tabs :
          /\ tabs'[i].id = tabs[i].id /\ tabs'[i].controls = tabs[i].controls
          /\ docTabs'[i].id = docTabs[i].id
          /\ docTabs'[i].controls = docTabs[i].controls
    /\ \A i \in DOMAIN panels :
          /\ panels'[i].id = panels[i].id
          /\ panels'[i].labelledby = panels[i].labelledby

\* C23, as stated: in forgiving mode, after construction and after any
\* sequence of selectTab, click and keydown operations, every pair below
\* min(|tabs|, |panels|) has a tab id and a panel id, aria-controls is the
\* panel's id and aria-labelledby the tab's id; an id of the markup is kept
\* and no id or relation changes after construction.
C23_PairsRelatedAndStable ==
    [][(phase' = "ready" /\ ~config'.strict) =>
          /\ PairsRelated(tabs', panels')
          /\ (phase = "ready" => IdsAndRelationsKept)]_vars

\* C23, amended: the same for a container that has a tablist.
C23_PairsRelatedAndStableWithTablist ==
    [][(phase' = "ready" /\ ~config'.strict /\ markup.tablist.present) =>
          /\ PairsRelated(tabs', panels')
          /\ PairsRelated(docTabs', panels')
          /\ (phase = "ready" => IdsAndRelationsKept)]_vars

\* After a click on the second tab the first tab still has the id of the
\* markup, its panel has a generated id and the two refer to each other.
C23_Witness ==
    /\ phase = "ready" /\ ~config.strict /\ markup.tablist.present
    /\ Len(tabs) >= 2 /\ Len(panels) >= 2
    /\ last.op = "click" /\ last.index = 1 /\ getSelectedIndex = 1
    /\ markup.tabs[1].id # NoId /\ tabs[1].id = markup.tabs[1].id
    /\ markup.panels[1].id = NoId /\ panels[1].id # NoId
    /\ tabs[1].controls = panels[1].id /\ panels[1].labelledby = tabs[1].id
    /\ markup.tabs[2].id = NoId /\ tabs[2].id # NoId

\* The step before was the forgiving-mode construction over a container
\* with a tablist.
ForgivingConstructed ==
    /\ phase = "ready" /\ last.op = "construct"
    /\ ~config.strict /\ markup.tablist.present

\* C24, as stated: in forgiving mode the role of a tab and of a panel is
\* written only if it is absent, a role of the markup, whatever its value,
\* being kept; aria-controls and aria-labelledby are always written.
C24_RoleWrittenIfAbsent ==
    ForgivingConstructed =>
       \A i \in Pairs :
          /\ tabs[i].role = (IF markup.tabs[i].role = NULL THEN "tab"
                             ELSE markup.tabs[i].role)
          /\ panels[i].role = (IF markup.panels[i].role = NULL THEN "tabpanel"
                               ELSE markup.panels[i].role)
          /\ tabs[i].controls = panels[i].id
          /\ panels[i].labelledby = tabs[i].id

\* C24, amended: only the tablist's role is written if absent and kept
\* otherwise; the role of every tab that has a panel is set to "tab" and of
\* every panel that has a tab to "tabpanel", whatever role the markup gave
\* them; aria-controls and aria-labelledby are always written; a tab or a
\* panel without a partner keeps the role of the markup.
C24_RoleAlwaysWritten ==
    ForgivingConstructed =>
       /\ tablist.role = (IF markup.tablist.role = NULL THEN "tablist"
                          ELSE markup.tablist.role)
       /\ \A i \in Pairs :
             /\ tabs[i].role = "tab"
             /\ panels[i].role = "tabpanel"
             /\ tabs[i].controls = panels[i].id
             /\ panels[i].labelledby = tabs[i].id
       /\ \A i \in DOMAIN tabs \ Pairs : tabs[i].role = markup.tabs[i].role
       /\ \A i \in DOMAIN panels \ Pairs : panels[i].role = markup.panels[i].role

\* A tab marked role="button" with a relation to another element, under a
\* tablist marked role="presentation": the tab has role "tab" and controls
\* its panel, the tablist has kept its role.
C24_Witness ==
    /\ ForgivingConstructed /\ Pairs # {}
    /\ markup.tablist.role = "presentation" /\ tablist.role = "presentation"
    /\ markup.tabs[1].role = "button" /\ tabs[1].role = "tab"
    /\ markup.panels[1].role = NULL /\ panels[1].role = "tabpanel"
    /\ markup.tabs[1].controls # NoId
    /\ tabs[1].controls = panels[1].id /\ tabs[1].controls # markup.tabs[1].controls

\* destroy() has replaced the tabs of the document: the elements there are
\* no longer the instance's.
Destroyed == Len(tabs) >= 1 /\ ~SameNodes

\* C25: after destroy() no click and no keydown on a tab of the document
\* causes a reaction of the instance, whatever follows: no handler runs, the
\* default action is not suppressed, selection, elements and focus stay as
\* they are and nothing is emitted; destroy() itself leaves currentIndex,
\* the tabs' attributes and every panel as they were.
C25_NoReactionAfterDestroy ==
    [][/\ (last'.op = "destroy" =>
             /\ (Len(tabs) >= 1 => Destroyed')
             /\ UNCHANGED <<currentIndex, tabs, panels, listeners>>
             /\ \A i \in DOMAIN docTabs :
                   docTabs'[i] = [docTabs[i] EXCEPT !.node = docTabs'[i].node]
             /\ last'.effects = <<>>)
       /\ (Destroyed => Destroyed')
       /\ ((Destroyed /\ last'.op \in {"click", "keydown"}) =>
             /\ ~last'.handled /\ ~last'.prevented
             /\ UNCHANGED <<currentIndex, tabs, panels, docTabs, focus>>
             /\ last'.effects = <<>>)]_vars

\* After destroy(), a selectTab(1) by the page's code and a click on tab 0
\* of the document: the click did nothing, tab 1 is still selected.
C25_Witness ==
    /\ Destroyed /\ Len(tabs) >= 2
    /\ last.op = "click" /\ last.index = 0 /\ ~last.prevented
    /\ getSelectedIndex = 1 /\ SelectedTabs(tabs) = {1}

\* The step asked for an announcement; the index it was asked for.
Announced == EffectsOfType(last'.effects, "announce") # {}

\* C26: a selectTab(index, announce) call asks for an announcement exactly
\* when index (a valid one) differs from the index selected before,
\* announceChanges is enabled, which it is unless the caller passed false,
\* and the announce argument is true; a click and a handled key in auto
\* mode call selectTab with the default argument, true; the construction
\* and an unhandled or manual-mode key ask for none.
C26_AnnouncedExactlyWhen ==
    [][/\ (phase' = "ready" =>
             config'.announceChanges = (userConfig.announceChanges # "false"))
       /\ (last'.op = "selectTab" =>
             (Announced <=> /\ InRange(last'.index)
                            /\ last'.index # currentIndex
                            /\ config.announceChanges
                            /\ last'.announce))
       /\ (last'.op = "click" =>
             (Announced <=> /\ last'.index # currentIndex
                            /\ config.announceChanges))
       /\ (last'.op = "keydown" =>
             (Announced <=> /\ config.activation = "auto" /\ last'.handled
                            /\ focus' # currentIndex
                            /\ config.announceChanges))
       /\ (last'.op = "construct" => ~Announced)
       /\ (Announced =>
             /\ Cardinality(EffectsOfType(last'.effects, "announce")) = 1
             /\ \A j \in EffectsOfType(last'.effects, "announce") :
                   last'.effects[j].index = currentIndex')]_vars

\* selectTab(1) with the default arguments on an instance constructed
\* without announceChanges asked for the announcement of tab 1.
C26_Witness ==
    /\ phase = "ready" /\ userConfig.announceChanges = UNSET
    /\ last.op = "selectTab" /\ last.index = 1 /\ last.announce
    /\ Cardinality(EffectsOfType(last.effects, "announce")) = 1
    /\ getSelectedIndex = 1

\* C27: in strict mode the construction over a container with a tablist
\* throws when a tab that has a panel lacks aria-controls or a panel that
\* has a tab lacks aria-labelledby, as it does for a missing role or id.
C27_StrictThrowsOnMissingRelation ==
    (/\ last.op = "construct" /\ config.strict /\ markup.tablist.present
     /\ \E i \in MarkupPairs : \/ markup.tabs[i].controls = NoId
                               \/ markup.panels[i].labelledby = NoId) =>
       phase = "thrown" /\ last.thrown # NULL

\* The containers of the page marked data-focus="tabs".
TabsContainers == {i \in DOMAIN page.containers : page.containers[i].pattern = "tabs"}

\* C28: a container marked data-focus="tabs" data-strict="true" that the
\* bootstrap picks up gets an instance in strict mode: its markup is
\* validated and not repaired, so an instance the scan has registered for
\* it has config.strict set and tabs with the ids and roles of the markup.
C28_DataStrictGivesStrictInstance ==
    page.op # "none" =>
       \A i \in TabsContainers :
          (/\ page.containers[i].data.strict = "true"
           /\ page.instances[i] # NoInstance) =>
             /\ page.instances[i].config.strict
             /\ \A k \in DOMAIN page.instances[i].tabs :
                   /\ page.instances[i].tabs[k].id = page.containers[i].markup.tabs[k].id
                   /\ page.instances[i].tabs[k].role =
                         page.containers[i].markup.tabs[k].role

\* The constructor over every container structure with strict left out or
\* false: the errors it throws.
ForgivingThrows ==
    {newTabs([DefaultUserConfig EXCEPT !.strict = strict], mk.tablist, mk.tabs,
             mk.panels, 0, rnd).thrown :
        strict \in {UNSET, "false"}, mk \in BareMarkups \cup NoTablistMarkups,
        rnd \in RandomSuffixes}

\* C29: structural problems never throw past the construction: with strict
\* left out or false the constructor returns for every structure (no
\* tablist, no tabs, no panels, more tabs than panels or the reverse), and
\* a scan of the bootstrap throws nothing and leaves every container marked
\* data-focus="tabs" with one instance, whatever the containers before it.
C29_StructuralProblemsNeverThrow ==
    /\ ForgivingThrows = {NULL}
    /\ (page.op # "none" =>
          /\ page.thrown = NULL
          /\ \A i \in DOMAIN page.containers :
                IF i \in TabsContainers
                THEN /\ page.instances[i] # NoInstance
                     /\ page.instances[i].thrown = NULL
                     /\ page.built[i] = 1
                ELSE /\ page.instances[i] = NoInstance
                     /\ page.built[i] = 0)

\* The first container has no tablist, the second has everything: after
\* the scan both have an instance and the second one's tabs are set up.
C29_Witness ==
    /\ page.op = "initializeAll" /\ Len(page.containers) >= 2
    /\ TabsContainers = DOMAIN page.containers
    /\ ~page.containers[1].markup.tablist.present
    /\ page.instances[1] # NoInstance
    /\ page.containers[2].markup = Markup(TRUE, FALSE, MaxTabs, MaxPanels, {})
    /\ page.instances[2] # NoInstance
    /\ page.instances[2].listeners # {}
    /\ SelectedTabs(page.instances[2].tabs) = {0}

\* The caller left loop out or passed 'true'.
LoopAsked == userConfig.loop \in {UNSET, "true"}

\* C30: the configured loop flag reaches getNextElement: with loop left out
\* or 'true' an arrow of the orientation asking for the next tab on the
\* last tab goes to tab 0 and one asking for the previous tab on tab 0 goes
\* to the last tab; with loop 'false' they stay on the last tab and on
\* tab 0, the key being handled all the same (default suppressed, focus on
\* that tab); in auto mode the target is selected.
C30_LoopFlagReachesNavigation ==
    [][(KeydownOnLiveTab /\ last'.key \in ArrowsOf(config.orientation)) =>
          LET n == Len(tabs)
              k == last'.index
              dir == DirectionOf(last'.key)
          IN /\ last'.handled /\ last'.prevented
             /\ ((k = n - 1 /\ dir = 1) =>
                   focus' = (IF LoopAsked THEN 0 ELSE n - 1))
             /\ ((k = 0 /\ dir = -1) =>
                   focus' = (IF LoopAsked THEN n - 1 ELSE 0))
             /\ (config.activation = "auto" => getSelectedIndex' = focus')]_vars

\* With loop 'false' the arrow to the next tab on the last of several tabs
\* was handled and the focus is on the last tab.
C30_Witness ==
    /\ phase = "ready" /\ userConfig.loop = "false" /\ Len(tabs) >= 2
    /\ last.op = "keydown" /\ last.key \in ArrowsOf(config.orientation)
    /\ DirectionOf(last.key) = 1 /\ last.index = Len(tabs) - 1
    /\ last.prevented /\ focus = Len(tabs) - 1

\* A descendant that takes keyboard focus: a link with a target, a button
\* or an input that is not disabled, an element with a tab stop of 0 or more.
TakesFocus(content) == content \in {"a-href", "button", "input", "tabindex-0"}

C32_OneInstancePerContainer ==
    \A i \in DOMAIN page.containers : page.built[i] <= 1

\* C33: no construction calls onChange, whatever tab the markup marks
\* selected and whether or not every tab has a panel.
C33_ConstructionCallsNoOnChange ==
    last.op = "construct" => EffectsOfType(last.effects, "onChange") = {}

\* The indices the switch of handleKeydown yields for a key on a tab, over
\* every orientation and loop setting, every number of tabs and every tab.
HandledKeyTargets ==
    UNION {{[length |-> n,
             newIndex |-> keyTarget(ResolveConfig(uc),
                                    Markup(TRUE, FALSE, n, n, {}).tabs,
                                    k, key).newIndex] :
               uc \in LoopConfigs, k \in 0..(n - 1), key \in Keys} :
           n \in 1..MaxTabs}

\* C34: for every length n >= 1, every current index, inside the array or
\* not, either direction and with and without loop, getNextElement returns
\* an index of the array; so the index handleKeydown focuses, and selects
\* in auto mode, is the index of a tab.
C34_ResultIsAnIndex ==
    /\ nav.length >= 1 => (0 <= nav.result /\ nav.result < nav.length)
    /\ \A t \in HandledKeyTargets : 0 <= t.newIndex /\ t.newIndex < t.length

\* getNextElement was called one step back from three below a
\* three-element array, with loop.
C34_Witness ==
    /\ nav.length = 3 /\ nav.current = -3 /\ nav.direction = -1 /\ nav.loop
    /\ nav.result = 2

\* C35: an arrow of the orientation on tab k of a live instance targets the
\* neighbour of k, whatever tab is selected; in manual mode the selected
\* index stays as it is, so with loop an arrow to the next tab delivered to
\* the focused tab moves the focus one further modulo |tabs|, and m of them
\* in a row move it from k to (k + m) mod |tabs|.
C35_ArrowsStartFromEventTab ==
    [][(KeydownOnLiveTab /\ last'.key \in ArrowsOf(config.orientation)) =>
          LET n == Len(tabs)
              k == last'.index
              dir == DirectionOf(last'.key)
          IN /\ focus' = TargetOf(n, k, dir, config.loop = "true")
             /\ (config.activation = "manual" =>
                   /\ getSelectedIndex' = getSelectedIndex
                   /\ UNCHANGED <<tabs, panels>>)
             /\ ((config.activation = "manual" /\ config.loop = "true"
                  /\ dir = 1 /\ k = focus) =>
                   focus' = (focus + 1) % n)]_vars

\* In manual mode with loop, an arrow to the next tab on the last of several
\* tabs, which is not the selected one, has put the focus on tab 0.
C35_Witness ==
    /\ phase = "ready" /\ config.activation = "manual" /\ config.loop = "true"
    /\ Len(tabs) >= 2 /\ getSelectedIndex = 0
    /\ last.op = "keydown" /\ last.handled
    /\ last.key \in ArrowsOf(config.orientation) /\ DirectionOf(last.key) = 1
    /\ last.index = Len(tabs) - 1 /\ focus = 0

\* C36: after destroy(), a selectTab(i) with a valid i leaves the document
\* consistent: the tab of the document marked aria-selected="true" is the
\* one at position i, the one paired with the visible panel.
C36_DocumentFollowsSelectTabAfterDestroy ==
    (/\ phase = "ready" /\ Destroyed
     /\ last.op = "selectTab" /\ InRange(last.index)) =>
        /\ SelectedTabs(docTabs) = {last.index}
        /\ VisiblePanels(panels) \cap TabPositions = SelectedTabs(docTabs) \cap PanelPositions

\* C37: a panel at an index >= |tabs| is left as the markup has it by the
\* construction, in either mode, and by every selectTab, click and keydown
\* after it: id, role, aria-labelledby, tabindex and hidden flag.
C37_SurplusPanelsUntouched ==
    \A i \in DOMAIN panels :
        i > Len(tabs) =>
            /\ panels[i].id = markup.panels[i].id
            /\ panels[i].role = markup.panels[i].role
            /\ panels[i].labelledby = markup.panels[i].labelledby
            /\ panels[i].tabindex = markup.panels[i].tabindex
            /\ panels[i].hidden = markup.panels[i].hidden

\* A key has moved the selection in auto mode on an instance with tabs and
\* with more panels than tabs, the panels being visible in the markup.
C37_Witness ==
    /\ phase = "ready" /\ Len(tabs) >= 1 /\ Len(panels) > Len(tabs)
    /\ ~markup.panels[Len(panels)].hidden
    /\ last.op = "keydown" /\ last.handled /\ last.announce

\* The selectTab calls the onChange callback made during the step, in order.
CallbackCalls == EffectsOfType(last'.effects, "callback")

\* C38: when the onChange called by a selectTab(i) calls selectTab(j) with
\* a valid j, then as the outer call returns getSelectedIndex() = j and
\* exactly tab j is selected and panel j visible; if j is another index than
\* i, onChange is called for j once, after the call for i, with tabs[j], and
\* not at all if j = i; and every onChange call finds getSelectedIndex() at
\* its argument and that tab the one marked selected.
C38_ReentrantSelectionConsistent ==
    [][(/\ last'.op = "selectTab" /\ InRange(last'.index)
        /\ last'.index # currentIndex
        /\ CallbackCalls # {}
        /\ \A c \in CallbackCalls : InRange(last'.effects[c].index)) =>
          LET e == last'.effects
              i == last'.index
              first == CHOOSE c \in CallbackCalls : \A d \in CallbackCalls : c <= d
              j == e[first].index
              calls == EffectsOfType(e, "onChange")
          IN /\ getSelectedIndex' = j
             /\ SelectedTabs(tabs') = {j}
             /\ FocusableTabs(tabs') = {j}
             /\ VisiblePanels(panels') = {j}
             /\ {e[c].index : c \in calls} = {i, j}
             /\ Cardinality(calls) = IF j = i THEN 1 ELSE 2
             /\ \A c \in calls :
                   /\ e[c].index = j /\ j # i => c > first
                   /\ e[c].node = tabs'[e[c].index + 1].node
                   /\ e[c].currentIndexNow = e[c].index
                   /\ e[c].selectedNow = {e[c].currentIndexNow}
                   /\ e[c].visibleNow = {e[c].currentIndexNow}]_vars

\* selectTab(1) on an instance with tab 0 selected whose onChange selects
\* tab 0: onChange was called for 1 and then for 0, and tab 0 is selected.
C38_Witness ==
    /\ phase = "ready" /\ Len(tabs) >= 2
    /\ last.op = "selectTab" /\ last.index = 1
    /\ Cardinality(EffectsOfType(last.effects, "onChange")) = 2
    /\ getSelectedIndex = 0 /\ SelectedTabs(tabs) = {0}

\* The keys handleKeydown handles under the configured orientation.
HandledKeys == ArrowsOf(config.orientation) \cup {"Home", "End"}

\* C39: in auto mode, after a keydown of an arrow of the orientation, of
\* Home or of End on a tab of the instance, the key has been handled and the
\* tab that got the focus is the selected one: its index is
\* getSelectedIndex() and it is the one tab with tabindex "0" and the one
\* marked selected.
C39_AutoFocusIsSelection ==
    (/\ phase = "ready" /\ config.activation = "auto"
     /\ last.op = "keydown" /\ last.key \in HandledKeys) =>
        /\ last.handled /\ last.prevented
        /\ InRange(focus)
        /\ focus = getSelectedIndex
        /\ FocusableTabs(tabs) = {focus}
        /\ FocusableTabs(docTabs) = {focus}
        /\ SelectedTabs(tabs) = {focus}
        /\ \A i \in TabPositions \ {focus} :
              tabs[i + 1].tabindex = TABINDEX_NOT_FOCUSABLE

\* In auto mode End on tab 0 of several tabs has put focus and selection on
\* the last tab.
C39_Witness ==
    /\ phase = "ready" /\ config.activation = "auto" /\ Len(tabs) >= 2
    /\ last.op = "keydown" /\ last.key = "End" /\ last.index = 0 /\ last.handled
    /\ focus = Len(tabs) - 1 /\ getSelectedIndex = Len(tabs) - 1

====
